---- MODULE Spec2Model ----
(***************************************************************************)
(* Model of scrapedbooru (worker-pool revision, src/unnamed/part_001).      *)
(*                                                                         *)
(* The specifications of this module:                                      *)
(*   Spec / FairSpec  scrapeRange: the producer, the unbuffered job         *)
(*                    channel, the N worker goroutines, the WaitGroup.      *)
(*   DbSpec           dbInsert / dbInsertTags, one SQL statement per step,  *)
(*                    against a store with PostgreSQL transactions.         *)
(*   ReqSpec          requestPost as a function of the remote's answer.     *)
(***************************************************************************)
EXTENDS Integers, Sequences, FiniteSets, TLC

(***************************************************************************)
(* Bounds of the model.                                                    *)
(***************************************************************************)
MaxStart == 2      \* startId ranges over 1..MaxStart
MaxStop == 45      \* stopId ranges over 0..MaxStop (three sub-ranges at most)
MaxThreads == 3    \* nrThreads ranges over 0..MaxThreads
MaxCalls == 2      \* dbInsert is called at most MaxCalls times
MaxFaults == 1     \* the store fails at most MaxFaults statements on its own
MaxReqIds == 5     \* the remote holds posts 51..50 + MaxReqIds

(***************************************************************************)
(* Program constants.                                                      *)
(***************************************************************************)
dbooruLimit == 20

\* A mutant of chanCap: a channel with room for dbooruLimit pairs.
chanCapOfLimit == dbooruLimit

\* A mutant of chanCap: a buffered channel, make(chan intPair, 2).
chanCapBuffered == 1 + 1

\* make(chan intPair): the job channel has no buffer.
chanCap == 0

VARIABLES
    \* ---- scrapeRange -------------------------------------------------
    startId,      \* argument of scrapeRange
    stopId,       \* argument of scrapeRange
    nrThreads,    \* argument of scrapeRange
    mainPc,       \* position of the goroutine running scrapeRange
    spawned,      \* loop variable i of the spawning loop
    currentId,    \* loop variable of the producer loop
    sendVal,      \* the intPair the producer is blocked sending, or <<>>
    chanBuf,      \* buffered content of paramChannel (capacity chanCap)
    chanClosed,   \* paramChannel has been closed
    wgCount,      \* counter of waitGroup
    wpc,          \* position of each worker goroutine
    wparams,      \* params of each worker goroutine
    aborted,      \* log.Fatalf has ended the process
    pushed,       \* history: the intPairs whose send has started, in order
    batchLog,     \* history: begin / end of every scrapeBatch call
    \* ---- dbInsert / dbInsertTags and the store ------------------------
    db,           \* the tables: posts, tags, tagged, favorites, pooled
    tagSeq,       \* the sequence behind tags.id (serial)
    txState,      \* "none", "open", or "failed" (a statement of it failed)
    txSnap,       \* the tables as they were when the transaction began
    dbPc,         \* position inside dbInsert / dbInsertTags
    post,         \* the *Post passed to dbInsert
    cat,          \* which of the four dbInsertTags calls is running (1..4)
    toks,         \* tagSplit, or the tokens of FavString / PoolString
    idx,          \* position of the running range loop in toks
    tagId,        \* var tagId int of the edge loop
    callNo,       \* history: number of dbInsert calls so far
    calls,        \* history: the posts passed to dbInsert, in order
    errLog,       \* history: the errors the statements returned
    faults,       \* number of store faults injected so far
    txLog,        \* history: begin, commit and rollback of every transaction
    jobs,         \* the posts requestPost returns, one []Post per sub-range
    jobNo,        \* the sub-range whose scrapeBatch is running (0: none yet)
    psIdx,        \* how many posts of that sub-range were passed to dbInsert
    \* ---- requestPost --------------------------------------------------
    reqStart,     \* argument startId of requestPost
    reqStop,      \* argument stopId of requestPost
    reqOutcome,   \* how the request ends: "ok", "neterr", "status", "decodeerr"
    reqBody,      \* the post IDs the response body decodes to, in order
    reqPc,        \* "call" or "returned"
    reqResult,    \* the []Post returned, as post IDs
    inserted,     \* history: the posts scrapeBatch passed to dbInsert
    saved,        \* history: the posts scrapeBatch passed to saveFile
    \* ---- workers sharing the store ------------------------------------
    wposts,       \* per worker: the posts of its sub-range still to insert
    wstmts,       \* per worker: the statements of its dbInsert call still to run
    wtx,          \* per worker: the uncommitted rows of its open transaction
    wtagId,       \* per worker: var tagId int of the edge loop
    poolErrs      \* history: the statements that failed

pipeVars == <<startId, stopId, nrThreads, mainPc, spawned, currentId, sendVal,
              chanBuf, chanClosed, wgCount, wpc, wparams, aborted, pushed,
              batchLog>>

dbVars == <<db, tagSeq, txState, txSnap, dbPc, post, cat, toks, idx, tagId,
            callNo, calls, errLog, faults, txLog, jobs, jobNo, psIdx>>

reqVars == <<reqStart, reqStop, reqOutcome, reqBody, reqPc, reqResult,
             inserted, saved>>

poolVars == <<wposts, wstmts, wtx, wtagId, poolErrs>>

vars == <<pipeVars, dbVars, reqVars, poolVars>>

Workers == 1..MaxThreads

intPair(first, second) == [first |-> first, second |-> second]

NoPair == <<>>

(***************************************************************************)
(* scrapeRange                                                             *)
(***************************************************************************)

\* A mutant of currentStop: the last sub-range is not clipped to stopId.
currentStopUnclipped(cur, stop) == cur + dbooruLimit

\* A mutant of currentStop: sub-ranges one wider than the limit.
currentStopWide(cur, stop) ==
    IF cur + dbooruLimit + 1 > stop THEN stop ELSE cur + dbooruLimit + 1

\* currentStop := currentId + dbooruLimit, clipped to stopId.
currentStop(cur, stop) ==
    IF cur + dbooruLimit > stop THEN stop ELSE cur + dbooruLimit

\* A mutant of wgAdd: the counter is set one short of the goroutines started.
wgAddOneShort(n) == n - 1

\* A mutant of wgAdd: the counter is set one above the goroutines started.
wgAddOneOver(n) == n + 1

\* waitGroup.Add(nrThreads): what the call adds to the counter.
wgAdd(n) == n

\* A mutant of nextId: consecutive sub-ranges share one ID.
nextIdOverlap(cur) == cur + dbooruLimit - 1

\* A mutant of nextId: one ID is skipped between consecutive sub-ranges.
nextIdSkip(cur) == cur + dbooruLimit + 1

\* currentId += dbooruLimit
nextId(cur) == cur + dbooruLimit

PipeInit ==
    /\ startId \in 1..MaxStart
    /\ stopId \in 0..MaxStop
    /\ nrThreads \in 0..MaxThreads
    /\ mainPc = "start"
    /\ spawned = 0
    /\ currentId = 0
    /\ sendVal = NoPair
    /\ chanBuf = <<>>
    /\ chanClosed = FALSE
    /\ wgCount = 0
    /\ wpc = [w \in Workers |-> "unborn"]
    /\ wparams = [w \in Workers |-> NoPair]
    /\ aborted = FALSE
    /\ pushed = <<>>
    /\ batchLog = <<>>

BatchEvent(ev, who, job) == [ev |-> ev, who |-> who, job |-> job]

\* scrapeRange, entry: the argument check, then either the synchronous
\* single-post batch or waitGroup.Add(nrThreads).
ScrapeRangeEnter ==
    /\ ~aborted
    /\ mainPc = "start"
    /\ IF startId > stopId
       THEN /\ aborted' = TRUE
            /\ UNCHANGED <<mainPc, wgCount, batchLog>>
       ELSE IF startId = stopId
       THEN /\ mainPc' = "single"
            /\ batchLog' = Append(batchLog,
                              BatchEvent("begin", 0, intPair(startId, stopId)))
            /\ UNCHANGED <<aborted, wgCount>>
       ELSE /\ mainPc' = "spawn"
            /\ wgCount' = wgCount + wgAdd(nrThreads)
            /\ UNCHANGED <<aborted, batchLog>>
    /\ UNCHANGED <<startId, stopId, nrThreads, spawned, currentId, sendVal,
                   chanBuf, chanClosed, wpc, wparams, pushed>>
    /\ UNCHANGED <<dbVars, reqVars, poolVars>>

\* The synchronous scrapeBatch(startId, stopId) of the single-post case returns,
\* and scrapeRange with it.
ScrapeRangeSingle ==
    /\ ~aborted
    /\ mainPc = "single"
    /\ mainPc' = "returned"
    /\ batchLog' = Append(batchLog,
                      BatchEvent("end", 0, intPair(startId, stopId)))
    /\ UNCHANGED <<startId, stopId, nrThreads, spawned, currentId, sendVal,
                   chanBuf, chanClosed, wgCount, wpc, wparams, aborted, pushed>>
    /\ UNCHANGED <<dbVars, reqVars, poolVars>>

\* A mutant of Spawn: the loop runs while i <= nrThreads and starts one
\* goroutine too many.
SpawnOneMore ==
    /\ ~aborted
    /\ mainPc = "spawn"
    /\ IF spawned <= nrThreads /\ spawned < MaxThreads
       THEN /\ spawned' = spawned + 1
            /\ wpc' = [wpc EXCEPT ![spawned + 1] = "recv"]
            /\ UNCHANGED <<mainPc, currentId>>
       ELSE /\ mainPc' = "loop"
            /\ currentId' = startId
            /\ UNCHANGED <<spawned, wpc>>
    /\ UNCHANGED <<startId, stopId, nrThreads, sendVal, chanBuf, chanClosed,
                   wgCount, wparams, aborted, pushed, batchLog>>
    /\ UNCHANGED <<dbVars, reqVars, poolVars>>

\* One iteration of the spawning loop: go func() {...}().
Spawn ==
    /\ ~aborted
    /\ mainPc = "spawn"
    /\ IF spawned < nrThreads
       THEN /\ spawned' = spawned + 1
            /\ wpc' = [wpc EXCEPT ![spawned + 1] = "recv"]
            /\ UNCHANGED <<mainPc, currentId>>
       ELSE /\ mainPc' = "loop"
            /\ currentId' = startId
            /\ UNCHANGED <<spawned, wpc>>
    /\ UNCHANGED <<startId, stopId, nrThreads, sendVal, chanBuf, chanClosed,
                   wgCount, wparams, aborted, pushed, batchLog>>
    /\ UNCHANGED <<dbVars, reqVars, poolVars>>

\* One iteration of the producer loop up to the channel send: the pair goes
\* into the buffer when there is room, and otherwise the producer blocks.
Produce ==
    /\ ~aborted
    /\ mainPc = "loop"
    /\ IF currentId < stopId
       THEN LET job == intPair(currentId, currentStop(currentId, stopId))
            IN /\ pushed' = Append(pushed, job)
               /\ IF Len(chanBuf) < chanCap
                  THEN /\ chanBuf' = Append(chanBuf, job)
                       /\ currentId' = nextId(currentId)
                       /\ UNCHANGED <<mainPc, sendVal>>
                  ELSE /\ sendVal' = job
                       /\ mainPc' = "send"
                       /\ UNCHANGED <<chanBuf, currentId>>
       ELSE /\ mainPc' = "close"
            /\ UNCHANGED <<pushed, chanBuf, currentId, sendVal>>
    /\ UNCHANGED <<startId, stopId, nrThreads, spawned, chanClosed, wgCount,
                   wpc, wparams, aborted, batchLog>>
    /\ UNCHANGED <<dbVars, reqVars, poolVars>>

\* close(paramChannel)
Close ==
    /\ ~aborted
    /\ mainPc = "close"
    /\ chanClosed' = TRUE
    /\ mainPc' = "wait"
    /\ UNCHANGED <<startId, stopId, nrThreads, spawned, currentId, sendVal,
                   chanBuf, wgCount, wpc, wparams, aborted, pushed, batchLog>>
    /\ UNCHANGED <<dbVars, reqVars, poolVars>>

\* waitGroup.Wait() returns, and scrapeRange with it.
Wait ==
    /\ ~aborted
    /\ mainPc = "wait"
    /\ wgCount = 0
    /\ mainPc' = "returned"
    /\ UNCHANGED <<startId, stopId, nrThreads, spawned, currentId, sendVal,
                   chanBuf, chanClosed, wgCount, wpc, wparams, aborted, pushed,
                   batchLog>>
    /\ UNCHANGED <<dbVars, reqVars, poolVars>>

\* params, ok := <-paramChannel with ok = true, and the call of scrapeBatch.
\* The value comes from the buffer, or straight from the blocked sender.
Recv(w) ==
    /\ ~aborted
    /\ wpc[w] = "recv"
    /\ \/ /\ chanBuf # <<>>
          /\ wparams' = [wparams EXCEPT ![w] = Head(chanBuf)]
          /\ batchLog' = Append(batchLog, BatchEvent("begin", w, Head(chanBuf)))
          /\ IF mainPc = "send"
             THEN /\ chanBuf' = Append(Tail(chanBuf), sendVal)
                  /\ sendVal' = NoPair
                  /\ mainPc' = "loop"
                  /\ currentId' = nextId(currentId)
             ELSE /\ chanBuf' = Tail(chanBuf)
                  /\ UNCHANGED <<sendVal, mainPc, currentId>>
       \/ /\ chanBuf = <<>>
          /\ mainPc = "send"
          /\ wparams' = [wparams EXCEPT ![w] = sendVal]
          /\ batchLog' = Append(batchLog, BatchEvent("begin", w, sendVal))
          /\ sendVal' = NoPair
          /\ mainPc' = "loop"
          /\ currentId' = nextId(currentId)
          /\ UNCHANGED chanBuf
    /\ wpc' = [wpc EXCEPT ![w] = "batch"]
    /\ UNCHANGED <<startId, stopId, nrThreads, spawned, chanClosed, wgCount,
                   aborted, pushed>>
    /\ UNCHANGED <<dbVars, reqVars, poolVars>>

\* scrapeBatch(params.first, params.second, ...) runs to its end: the two
\* argument checks (scrapeBatch, requestPost) end the process with log.Fatalf.
ScrapeBatch(w) ==
    /\ ~aborted
    /\ wpc[w] = "batch"
    /\ IF \/ wparams[w].first > wparams[w].second
          \/ wparams[w].second - wparams[w].first > dbooruLimit
       THEN /\ aborted' = TRUE
            /\ UNCHANGED <<wpc, wparams, batchLog>>
       ELSE /\ batchLog' = Append(batchLog, BatchEvent("end", w, wparams[w]))
            /\ wpc' = [wpc EXCEPT ![w] = "recv"]
            /\ wparams' = [wparams EXCEPT ![w] = NoPair]
            /\ UNCHANGED aborted
    /\ UNCHANGED <<startId, stopId, nrThreads, mainPc, spawned, currentId,
                   sendVal, chanBuf, chanClosed, wgCount, pushed>>
    /\ UNCHANGED <<dbVars, reqVars, poolVars>>

\* A mutant of RecvNotOk: the worker also gives up when nothing is on offer.
RecvNotOkWhenIdle == chanBuf = <<>> /\ sendVal = NoPair

\* params, ok := <-paramChannel yields ok = false: closed and drained.
RecvNotOk == chanClosed /\ chanBuf = <<>>

\* The worker's exit on ok = false: waitGroup.Done() and return. Done panics,
\* ending the process, when it would take the counter below zero.
WorkerExit(w) ==
    /\ ~aborted
    /\ wpc[w] = "recv"
    /\ RecvNotOk
    /\ IF wgCount - 1 < 0
       THEN /\ aborted' = TRUE
            /\ UNCHANGED <<wgCount, wpc>>
       ELSE /\ wgCount' = wgCount - 1
            /\ wpc' = [wpc EXCEPT ![w] = "exited"]
            /\ UNCHANGED aborted
    /\ UNCHANGED <<startId, stopId, nrThreads, mainPc, spawned, currentId,
                   sendVal, chanBuf, chanClosed, wparams, pushed, batchLog>>
    /\ UNCHANGED <<dbVars, reqVars, poolVars>>

(***************************************************************************)
(* Strings are sequences of one-character strings.                         *)
(***************************************************************************)
Whitespace == {" ", "\t", "\n"}

RECURSIVE TrimLeft(_)
TrimLeft(s) ==
    IF s # <<>> /\ Head(s) \in Whitespace THEN TrimLeft(Tail(s)) ELSE s

RECURSIVE TrimRight(_)
TrimRight(s) ==
    IF s # <<>> /\ s[Len(s)] \in Whitespace
    THEN TrimRight(SubSeq(s, 1, Len(s) - 1))
    ELSE s

\* strings.TrimSpace
TrimSpace(s) == TrimRight(TrimLeft(s))

\* strings.Split(s, " "): one piece more than there are spaces in s.
RECURSIVE Split(_)
Split(s) ==
    LET stops == {k \in 1..Len(s) : s[k] = " "}
        k == CHOOSE m \in stops : \A n \in stops : m <= n
    IN IF stops = {} THEN <<s>>
       ELSE <<SubSeq(s, 1, k - 1)>> \o Split(SubSeq(s, k + 1, Len(s)))

\* strings.TrimPrefix
TrimPrefix(s, prefix) ==
    IF Len(s) >= Len(prefix) /\ SubSeq(s, 1, Len(prefix)) = prefix
    THEN SubSeq(s, Len(prefix) + 1, Len(s))
    ELSE s

Digits == {"0", "1", "2", "3", "4", "5", "6", "7", "8", "9"}

DigitVal(c) ==
    CASE c = "0" -> 0 [] c = "1" -> 1 [] c = "2" -> 2 [] c = "3" -> 3
      [] c = "4" -> 4 [] c = "5" -> 5 [] c = "6" -> 6 [] c = "7" -> 7
      [] c = "8" -> 8 [] c = "9" -> 9

RECURSIVE DecVal(_)
DecVal(s) ==
    IF s = <<>> THEN 0
    ELSE 10 * DecVal(SubSeq(s, 1, Len(s) - 1)) + DigitVal(s[Len(s)])

\* strconv.Atoi: an optional sign, then one digit at least and digits only.
Atoi(s) ==
    LET signed == s # <<>> /\ Head(s) \in {"+", "-"}
        body == IF signed THEN Tail(s) ELSE s
    IN IF body # <<>> /\ \A k \in 1..Len(body) : body[k] \in Digits
       THEN [ok |-> TRUE,
             val |-> IF signed /\ Head(s) = "-" THEN 0 - DecVal(body)
                     ELSE DecVal(body)]
       ELSE [ok |-> FALSE, val |-> 0]

FavPrefix == <<"f", "a", "v", ":">>
PoolPrefix == <<"p", "o", "o", "l", ":">>

(***************************************************************************)
(* Posts handed to dbInsert: the fields dbInsert reads.                    *)
(***************************************************************************)
Post(id, art, chr, cpy, gen, fav, pool) ==
    [Id |-> id, TagStringArtist |-> art, TagStringCharacter |-> chr,
     TagStringCopyright |-> cpy, TagStringGeneral |-> gen,
     FavString |-> fav, PoolString |-> pool]

\* 1: artist "a", general "b c", favorites "fav:1 fav:2", pool "pool:3"
PostA ==
    Post(1, <<"a">>, <<>>, <<>>, <<"b", " ", "c">>,
         <<"f", "a", "v", ":", "1", " ", "f", "a", "v", ":", "2">>,
         <<"p", "o", "o", "l", ":", "3">>)

\* 2: character "d", general "a  b" (two spaces), favorites " ", pool ""
PostB ==
    Post(2, <<>>, <<"d">>, <<>>, <<"a", " ", " ", "b">>, <<" ">>, <<>>)

\* 3: general " c", favorites "fav:x fav:1", pool ""
PostC ==
    Post(3, <<>>, <<>>, <<>>, <<" ", "c">>,
         <<"f", "a", "v", ":", "x", " ", "f", "a", "v", ":", "1">>, <<>>)

SamplePosts == {PostA, PostB, PostC}

NoPost == <<>>

\* Tag categories
Categories == <<"a", "c", "y", "g">>

\* The tag string dbInsert passes to its k-th dbInsertTags call.
TagString(p, k) ==
    CASE k = 1 -> p.TagStringArtist
      [] k = 2 -> p.TagStringCharacter
      [] k = 3 -> p.TagStringCopyright
      [] k = 4 -> p.TagStringGeneral

(***************************************************************************)
(* The store: the five tables of the schema, and PostgreSQL transactions:  *)
(* a statement that fails inside a transaction puts it in the failed       *)
(* state, where every further statement fails and COMMIT rolls back.       *)
(***************************************************************************)
EmptyDb ==
    [posts |-> {}, tags |-> {}, tagged |-> {}, favorites |-> {}, pooled |-> {}]

NoSnap == <<>>

\* The store and dbInsert before the first call.
DbFresh ==
    /\ db = EmptyDb
    /\ tagSeq = 0
    /\ txState = "none"
    /\ txSnap = NoSnap
    /\ dbPc = "idle"
    /\ post = NoPost
    /\ cat = 0
    /\ toks = <<>>
    /\ idx = 0
    /\ tagId = 0
    /\ callNo = 0
    /\ calls = <<>>
    /\ errLog = {}
    /\ faults = 0
    /\ txLog = <<>>
    /\ jobNo = 0
    /\ psIdx = 0

\* No dbInsert call is to come.
DbIdle == DbFresh /\ jobs = <<>>

Err(c, k, stmt, why, tok) ==
    [call |-> c, cat |-> k, stmt |-> stmt, why |-> why, tok |-> tok]

\* The transaction of kind "tags", "edges", "fav" or "pool" of the running
\* call begins, or ends in a commit or in a rollback.
LogTx(k, kind, ev) ==
    txLog' = Append(txLog, [call |-> callNo, cat |-> k, kind |-> kind, ev |-> ev])

\* What tx.Commit() does: a transaction with a failed statement, or a commit
\* the store fails, is rolled back.
CommitEvent(fault) == IF txState = "failed" \/ fault THEN "rollback" ELSE "commit"

\* Whether the store may fail the next statement on its own (a lost
\* connection, a timeout, a deadlock): both outcomes while faults are left.
Faulty == IF faults < MaxFaults THEN {FALSE, TRUE} ELSE {FALSE}

Count(fault) == IF fault THEN faults + 1 ELSE faults

\* dbInsertTags returns: dbInsert goes on with the next category, or with
\* the favorites and pools.
ReturnFromTags ==
    IF cat < 4
    THEN dbPc' = "tags" /\ cat' = cat + 1
    ELSE dbPc' = "rel" /\ cat' = cat

PipeFrame == UNCHANGED <<pipeVars, reqVars, poolVars, jobs, jobNo>>

\* ps := requestPost(startId, stopId, client, auth) of the next scrapeBatch
\* call, and the start of its loop over ps.
NextBatch ==
    /\ dbPc = "idle"
    /\ jobNo < Len(jobs)
    /\ jobNo > 0 => psIdx = Len(jobs[jobNo])
    /\ jobNo' = jobNo + 1
    /\ psIdx' = 0
    /\ UNCHANGED <<db, tagSeq, txState, txSnap, dbPc, post, cat, toks, idx, tagId,
                   callNo, calls, errLog, faults, txLog, jobs>>
    /\ UNCHANGED <<pipeVars, reqVars, poolVars>>

\* A mutant of AfterPostError: dbInsert goes on to the tags after a failed
\* post insert.
AfterPostErrorGoOn == "tags"

\* A mutant of AfterPostError: the failure ends the process, as log.Fatalf
\* would.
AfterPostErrorFatal == "fatal"

\* Where dbInsert is after a failed INSERT INTO posts: log.Printf and return.
AfterPostError == "idle"

\* dbInsert(p, db) up to its first statement, INSERT INTO posts, which has no
\* ON CONFLICT clause: an existing id is a duplicate-key error.
InsertPost ==
    /\ dbPc = "idle"
    /\ callNo < MaxCalls
    /\ jobNo > 0
    /\ psIdx < Len(jobs[jobNo])
    /\ psIdx' = psIdx + 1
    /\ \E p \in {jobs[jobNo][psIdx + 1]}, fault \in Faulty :
          /\ post' = p
          /\ callNo' = callNo + 1
          /\ calls' = Append(calls, p)
          /\ faults' = Count(fault)
          /\ IF fault
             THEN /\ errLog' = errLog \cup {Err(callNo + 1, 0, "post", "fault", <<>>)}
                  /\ dbPc' = AfterPostError
                  /\ UNCHANGED db
             ELSE IF p.Id \in db.posts
             THEN /\ errLog' = errLog \cup {Err(callNo + 1, 0, "post", "dupkey", <<>>)}
                  /\ dbPc' = AfterPostError
                  /\ UNCHANGED db
             ELSE /\ db' = [db EXCEPT !.posts = @ \cup {p.Id}]
                  /\ dbPc' = "tags"
                  /\ UNCHANGED errLog
          /\ cat' = 1
    /\ UNCHANGED <<tagSeq, txState, txSnap, toks, idx, tagId, txLog>>
    /\ PipeFrame

\* dbInsertTags, entry: nothing to do for a blank string; else db.Begin() and
\* tagSplit := strings.Split(tags, " ").
TagsBegin ==
    /\ dbPc = "tags"
    /\ IF TrimSpace(TagString(post, cat)) = <<>>
       THEN /\ ReturnFromTags
            /\ UNCHANGED <<txState, txSnap, toks, errLog, faults, txLog>>
       ELSE \E fault \in Faulty :
            /\ faults' = Count(fault)
            /\ IF fault
               THEN /\ errLog' = errLog \cup {Err(callNo, cat, "begin", "fault", <<>>)}
                    /\ ReturnFromTags
                    /\ UNCHANGED <<txState, txSnap, toks, txLog>>
               ELSE /\ txState' = "open"
                    /\ LogTx(cat, "tags", "begin")
                    /\ txSnap' = db
                    /\ toks' = Split(TagString(post, cat))
                    /\ dbPc' = "tagPrep"
                    /\ UNCHANGED <<cat, errLog>>
    /\ UNCHANGED <<db, tagSeq, post, idx, tagId, callNo, calls, psIdx>>
    /\ PipeFrame

\* A mutant of TagPrepare: dbInsertTags returns on the failed Prepare, as it
\* does on a failed Begin, and leaves the transaction open.
TagPrepareEarlyReturn ==
    /\ dbPc = "tagPrep"
    /\ \E fault \in Faulty :
          /\ faults' = Count(fault)
          /\ IF fault
             THEN /\ txState' = "failed"
                  /\ errLog' = errLog \cup {Err(callNo, cat, "prepare", "fault", <<>>)}
                  /\ ReturnFromTags
                  /\ UNCHANGED idx
             ELSE /\ dbPc' = "tagIns"
                  /\ idx' = 1
                  /\ UNCHANGED <<txState, errLog, cat>>
    /\ UNCHANGED <<db, tagSeq, txSnap, post, toks, tagId, callNo, calls, txLog, psIdx>>
    /\ PipeFrame

\* tx.Prepare("INSERT INTO tags ...")
TagPrepare ==
    /\ dbPc = "tagPrep"
    /\ \E fault \in Faulty :
          /\ faults' = Count(fault)
          /\ IF fault
             THEN /\ txState' = "failed"
                  /\ errLog' = errLog \cup {Err(callNo, cat, "prepare", "fault", <<>>)}
                  /\ dbPc' = "tagCommit"
                  /\ UNCHANGED idx
             ELSE /\ dbPc' = "tagIns"
                  /\ idx' = 1
                  /\ UNCHANGED <<txState, errLog>>
    /\ UNCHANGED <<db, tagSeq, txSnap, post, cat, toks, tagId, callNo, calls, txLog, psIdx>>
    /\ PipeFrame

\* One iteration of the first loop: tagInsert.Exec(t, category), with
\* ON CONFLICT DO NOTHING on the unique name.
TagInsert ==
    /\ dbPc = "tagIns"
    /\ LET t == toks[idx]
       IN \E fault \in Faulty :
          /\ faults' = Count(fault)
          /\ IF txState = "failed"
             THEN /\ errLog' = errLog \cup {Err(callNo, cat, "tag", "aborted", t)}
                  /\ UNCHANGED <<db, tagSeq, txState>>
             ELSE IF fault
             THEN /\ errLog' = errLog \cup {Err(callNo, cat, "tag", "fault", t)}
                  /\ txState' = "failed"
                  /\ UNCHANGED <<db, tagSeq>>
             ELSE /\ tagSeq' = tagSeq + 1
                  /\ db' = IF \E r \in db.tags : r.name = t
                           THEN db
                           ELSE [db EXCEPT !.tags = @ \cup
                                   {[id |-> tagSeq + 1, name |-> t,
                                     category |-> Categories[cat]]}]
                  /\ UNCHANGED <<txState, errLog>>
    /\ idx' = idx + 1
    /\ dbPc' = IF idx = Len(toks) THEN "tagCommit" ELSE "tagIns"
    /\ UNCHANGED <<txSnap, post, cat, toks, tagId, callNo, calls, txLog, psIdx>>
    /\ PipeFrame

\* err = tx.Commit() of the tag rows; on an error dbInsertTags returns.
TagCommit ==
    /\ dbPc = "tagCommit"
    /\ \E fault \in Faulty :
          /\ faults' = Count(fault)
          /\ LogTx(cat, "tags", CommitEvent(fault))
          /\ IF txState = "failed" \/ fault
             THEN /\ db' = txSnap
                  /\ errLog' = errLog \cup
                        {Err(callNo, cat, "commit",
                             IF txState = "failed" THEN "aborted" ELSE "fault", <<>>)}
                  /\ ReturnFromTags
             ELSE /\ dbPc' = "edgeBegin"
                  /\ UNCHANGED <<db, cat, errLog>>
    /\ txState' = "none"
    /\ txSnap' = NoSnap
    /\ UNCHANGED <<tagSeq, post, toks, idx, tagId, callNo, calls, psIdx>>
    /\ PipeFrame

\* tx, err = db.Begin() of the second transaction.
EdgeBegin ==
    /\ dbPc = "edgeBegin"
    /\ \E fault \in Faulty :
          /\ faults' = Count(fault)
          /\ IF fault
             THEN /\ errLog' = errLog \cup {Err(callNo, cat, "begin", "fault", <<>>)}
                  /\ ReturnFromTags
                  /\ UNCHANGED <<txState, txSnap, txLog>>
             ELSE /\ txState' = "open"
                  /\ LogTx(cat, "edges", "begin")
                  /\ txSnap' = db
                  /\ dbPc' = "edgePrep"
                  /\ UNCHANGED <<cat, errLog>>
    /\ UNCHANGED <<db, tagSeq, post, toks, idx, tagId, callNo, calls, psIdx>>
    /\ PipeFrame

\* tagQuery, errQ := tx.Prepare(...); taggedInsert, errI := tx.Prepare(...)
EdgePrepare ==
    /\ dbPc = "edgePrep"
    /\ \E fault \in Faulty :
          /\ faults' = Count(fault)
          /\ IF fault
             THEN /\ txState' = "failed"
                  /\ errLog' = errLog \cup {Err(callNo, cat, "prepare", "fault", <<>>)}
                  /\ dbPc' = "edgeCommit"
                  /\ UNCHANGED idx
             ELSE /\ dbPc' = "edgeQuery"
                  /\ idx' = 1
                  /\ UNCHANGED <<txState, errLog>>
    /\ UNCHANGED <<db, tagSeq, txSnap, post, cat, toks, tagId, callNo, calls, txLog, psIdx>>
    /\ PipeFrame

\* First half of an iteration of the second loop: var tagId int, then
\* tagQuery.QueryRow(t).Scan(&tagId). An error is logged and tagId stays 0.
EdgeQuery ==
    /\ dbPc = "edgeQuery"
    /\ LET t == toks[idx]
           rows == {r \in db.tags : r.name = t}
       IN \E fault \in Faulty :
          /\ faults' = Count(fault)
          /\ IF txState = "failed"
             THEN /\ errLog' = errLog \cup {Err(callNo, cat, "lookup", "aborted", t)}
                  /\ tagId' = 0
                  /\ UNCHANGED txState
             ELSE IF fault
             THEN /\ errLog' = errLog \cup {Err(callNo, cat, "lookup", "fault", t)}
                  /\ tagId' = 0
                  /\ txState' = "failed"
             ELSE IF rows = {}
             THEN /\ errLog' = errLog \cup {Err(callNo, cat, "lookup", "norows", t)}
                  /\ tagId' = 0
                  /\ UNCHANGED txState
             ELSE /\ tagId' = (CHOOSE r \in rows : TRUE).id
                  /\ UNCHANGED <<txState, errLog>>
    /\ dbPc' = "edgeIns"
    /\ UNCHANGED <<db, tagSeq, txSnap, post, cat, toks, idx, callNo, calls, txLog, psIdx>>
    /\ PipeFrame

\* Second half: taggedInsert.Exec(tagId, postId), run whatever the lookup
\* returned; tagged references tags(id) and posts(id).
EdgeInsert ==
    /\ dbPc = "edgeIns"
    /\ LET t == toks[idx]
       IN \E fault \in Faulty :
          /\ faults' = Count(fault)
          /\ IF txState = "failed"
             THEN /\ errLog' = errLog \cup {Err(callNo, cat, "edge", "aborted", t)}
                  /\ UNCHANGED <<db, txState>>
             ELSE IF fault
             THEN /\ errLog' = errLog \cup {Err(callNo, cat, "edge", "fault", t)}
                  /\ txState' = "failed"
                  /\ UNCHANGED db
             ELSE IF \/ ~ \E r \in db.tags : r.id = tagId
                     \/ post.Id \notin db.posts
             THEN /\ errLog' = errLog \cup {Err(callNo, cat, "edge", "fk", t)}
                  /\ txState' = "failed"
                  /\ UNCHANGED db
             ELSE /\ db' = [db EXCEPT !.tagged = @ \cup {<<tagId, post.Id>>}]
                  /\ UNCHANGED <<txState, errLog>>
    /\ idx' = idx + 1
    /\ dbPc' = IF idx = Len(toks) THEN "edgeCommit" ELSE "edgeQuery"
    /\ UNCHANGED <<tagSeq, txSnap, post, cat, toks, tagId, callNo, calls, txLog, psIdx>>
    /\ PipeFrame

\* A mutant of EdgeCommit: tag rows and edges share one transaction, so the
\* rollback of the edges takes the tag rows of the string with it.
EdgeCommitDropsTags ==
    /\ dbPc = "edgeCommit"
    /\ \E fault \in Faulty :
          /\ faults' = Count(fault)
          /\ LogTx(cat, "edges", CommitEvent(fault))
          /\ IF txState = "failed" \/ fault
             THEN /\ db' = [txSnap EXCEPT
                              !.tags = {r \in @ :
                                         \A j \in 1..Len(toks) : r.name # toks[j]}]
                  /\ errLog' = errLog \cup
                        {Err(callNo, cat, "commit",
                             IF txState = "failed" THEN "aborted" ELSE "fault", <<>>)}
             ELSE UNCHANGED <<db, errLog>>
    /\ ReturnFromTags
    /\ txState' = "none"
    /\ txSnap' = NoSnap
    /\ UNCHANGED <<tagSeq, post, toks, idx, tagId, callNo, calls, psIdx>>
    /\ PipeFrame

\* err = tx.Commit() of the edges; dbInsertTags returns either way.
EdgeCommit ==
    /\ dbPc = "edgeCommit"
    /\ \E fault \in Faulty :
          /\ faults' = Count(fault)
          /\ LogTx(cat, "edges", CommitEvent(fault))
          /\ IF txState = "failed" \/ fault
             THEN /\ db' = txSnap
                  /\ errLog' = errLog \cup
                        {Err(callNo, cat, "commit",
                             IF txState = "failed" THEN "aborted" ELSE "fault", <<>>)}
             ELSE UNCHANGED <<db, errLog>>
    /\ ReturnFromTags
    /\ txState' = "none"
    /\ txSnap' = NoSnap
    /\ UNCHANGED <<tagSeq, post, toks, idx, tagId, callNo, calls, psIdx>>
    /\ PipeFrame

\* A mutant of BothBlank: one blank string is enough to return.
EitherBlank(p) ==
    TrimSpace(p.FavString) = <<>> \/ TrimSpace(p.PoolString) = <<>>

\* strings.TrimSpace(p.FavString) == "" && strings.TrimSpace(p.PoolString) == ""
BothBlank(p) ==
    TrimSpace(p.FavString) = <<>> /\ TrimSpace(p.PoolString) = <<>>

\* dbInsert after the four dbInsertTags calls: return when both strings are
\* blank, else db.Begin() for the favorites.
RelBegin ==
    /\ dbPc = "rel"
    /\ IF BothBlank(post)
       THEN /\ dbPc' = "idle"
            /\ UNCHANGED <<txState, txSnap, errLog, faults, txLog>>
       ELSE \E fault \in Faulty :
            /\ faults' = Count(fault)
            /\ IF fault
               THEN /\ errLog' = errLog \cup {Err(callNo, 0, "begin", "fault", <<>>)}
                    /\ dbPc' = "idle"
                    /\ UNCHANGED <<txState, txSnap, txLog>>
               ELSE /\ txState' = "open"
                    /\ LogTx(0, "fav", "begin")
                    /\ txSnap' = db
                    /\ dbPc' = "favPrep"
                    /\ UNCHANGED errLog
    /\ UNCHANGED <<db, tagSeq, post, cat, toks, idx, tagId, callNo, calls, psIdx>>
    /\ PipeFrame

\* stmt, err := tx.Prepare("INSERT INTO favorites ...")
FavPrepare ==
    /\ dbPc = "favPrep"
    /\ \E fault \in Faulty :
          /\ faults' = Count(fault)
          /\ IF fault
             THEN /\ txState' = "failed"
                  /\ errLog' = errLog \cup {Err(callNo, 0, "prepare", "fault", <<>>)}
                  /\ dbPc' = "favCommit"
                  /\ UNCHANGED <<toks, idx>>
             ELSE /\ toks' = Split(post.FavString)
                  /\ idx' = 1
                  /\ dbPc' = "favIns"
                  /\ UNCHANGED <<txState, errLog>>
    /\ UNCHANGED <<db, tagSeq, txSnap, post, cat, tagId, callNo, calls, txLog, psIdx>>
    /\ PipeFrame

\* One iteration of the favorites loop: a token that does not parse is
\* skipped; favorites references posts(id).
FavInsert ==
    /\ dbPc = "favIns"
    /\ LET userId == Atoi(TrimPrefix(toks[idx], FavPrefix))
       IN IF ~userId.ok
          THEN UNCHANGED <<db, txState, errLog, faults>>
          ELSE \E fault \in Faulty :
               /\ faults' = Count(fault)
               /\ IF txState = "failed"
                  THEN /\ errLog' = errLog \cup
                            {Err(callNo, 0, "fav", "aborted", toks[idx])}
                       /\ UNCHANGED <<db, txState>>
                  ELSE IF fault
                  THEN /\ errLog' = errLog \cup
                            {Err(callNo, 0, "fav", "fault", toks[idx])}
                       /\ txState' = "failed"
                       /\ UNCHANGED db
                  ELSE IF post.Id \notin db.posts
                  THEN /\ errLog' = errLog \cup
                            {Err(callNo, 0, "fav", "fk", toks[idx])}
                       /\ txState' = "failed"
                       /\ UNCHANGED db
                  ELSE /\ db' = [db EXCEPT
                                   !.favorites = @ \cup {<<userId.val, post.Id>>}]
                       /\ UNCHANGED <<txState, errLog>>
    /\ idx' = idx + 1
    /\ dbPc' = IF idx = Len(toks) THEN "favCommit" ELSE "favIns"
    /\ UNCHANGED <<tagSeq, txSnap, post, cat, toks, tagId, callNo, calls, txLog, psIdx>>
    /\ PipeFrame

\* tx.Commit() of the favorites, its result dropped.
FavCommit ==
    /\ dbPc = "favCommit"
    /\ \E fault \in Faulty :
          /\ faults' = Count(fault)
          /\ LogTx(0, "fav", CommitEvent(fault))
          /\ IF txState = "failed" \/ fault
             THEN /\ db' = txSnap
                  /\ errLog' = errLog \cup
                        {Err(callNo, 0, "commit",
                             IF txState = "failed" THEN "aborted" ELSE "fault", <<>>)}
             ELSE UNCHANGED <<db, errLog>>
    /\ dbPc' = "poolBegin"
    /\ txState' = "none"
    /\ txSnap' = NoSnap
    /\ UNCHANGED <<tagSeq, post, cat, toks, idx, tagId, callNo, calls, psIdx>>
    /\ PipeFrame

\* tx, err = db.Begin() for the pools.
PoolBegin ==
    /\ dbPc = "poolBegin"
    /\ \E fault \in Faulty :
          /\ faults' = Count(fault)
          /\ IF fault
             THEN /\ errLog' = errLog \cup {Err(callNo, 0, "begin", "fault", <<>>)}
                  /\ dbPc' = "idle"
                  /\ UNCHANGED <<txState, txSnap, txLog>>
             ELSE /\ txState' = "open"
                  /\ LogTx(0, "pool", "begin")
                  /\ txSnap' = db
                  /\ dbPc' = "poolPrep"
                  /\ UNCHANGED errLog
    /\ UNCHANGED <<db, tagSeq, post, cat, toks, idx, tagId, callNo, calls, psIdx>>
    /\ PipeFrame

\* stmt, err = tx.Prepare("INSERT INTO pooled ...")
PoolPrepare ==
    /\ dbPc = "poolPrep"
    /\ \E fault \in Faulty :
          /\ faults' = Count(fault)
          /\ IF fault
             THEN /\ txState' = "failed"
                  /\ errLog' = errLog \cup {Err(callNo, 0, "prepare", "fault", <<>>)}
                  /\ dbPc' = "poolCommit"
                  /\ UNCHANGED <<toks, idx>>
             ELSE /\ toks' = Split(post.PoolString)
                  /\ idx' = 1
                  /\ dbPc' = "poolIns"
                  /\ UNCHANGED <<txState, errLog>>
    /\ UNCHANGED <<db, tagSeq, txSnap, post, cat, tagId, callNo, calls, txLog, psIdx>>
    /\ PipeFrame

\* One iteration of the pools loop; pooled references posts(id).
PoolInsert ==
    /\ dbPc = "poolIns"
    /\ LET poolId == Atoi(TrimPrefix(toks[idx], PoolPrefix))
       IN IF ~poolId.ok
          THEN UNCHANGED <<db, txState, errLog, faults>>
          ELSE \E fault \in Faulty :
               /\ faults' = Count(fault)
               /\ IF txState = "failed"
                  THEN /\ errLog' = errLog \cup
                            {Err(callNo, 0, "pool", "aborted", toks[idx])}
                       /\ UNCHANGED <<db, txState>>
                  ELSE IF fault
                  THEN /\ errLog' = errLog \cup
                            {Err(callNo, 0, "pool", "fault", toks[idx])}
                       /\ txState' = "failed"
                       /\ UNCHANGED db
                  ELSE IF post.Id \notin db.posts
                  THEN /\ errLog' = errLog \cup
                            {Err(callNo, 0, "pool", "fk", toks[idx])}
                       /\ txState' = "failed"
                       /\ UNCHANGED db
                  ELSE /\ db' = [db EXCEPT
                                   !.pooled = @ \cup {<<poolId.val, post.Id>>}]
                       /\ UNCHANGED <<txState, errLog>>
    /\ idx' = idx + 1
    /\ dbPc' = IF idx = Len(toks) THEN "poolCommit" ELSE "poolIns"
    /\ UNCHANGED <<tagSeq, txSnap, post, cat, toks, tagId, callNo, calls, txLog, psIdx>>
    /\ PipeFrame

\* tx.Commit() of the pools, its result dropped; dbInsert returns.
PoolCommit ==
    /\ dbPc = "poolCommit"
    /\ \E fault \in Faulty :
          /\ faults' = Count(fault)
          /\ LogTx(0, "pool", CommitEvent(fault))
          /\ IF txState = "failed" \/ fault
             THEN /\ db' = txSnap
                  /\ errLog' = errLog \cup
                        {Err(callNo, 0, "commit",
                             IF txState = "failed" THEN "aborted" ELSE "fault", <<>>)}
             ELSE UNCHANGED <<db, errLog>>
    /\ dbPc' = "idle"
    /\ txState' = "none"
    /\ txSnap' = NoSnap
    /\ UNCHANGED <<tagSeq, post, cat, toks, idx, tagId, callNo, calls, psIdx>>
    /\ PipeFrame

\* scrapeRange is not running.
PipeOff ==
    /\ startId = 1
    /\ stopId = 1
    /\ mainPc = "returned"
    /\ spawned = 0
    /\ currentId = 0
    /\ sendVal = NoPair
    /\ chanBuf = <<>>
    /\ chanClosed = FALSE
    /\ wgCount = 0
    /\ wpc = [w \in Workers |-> "unborn"]
    /\ wparams = [w \in Workers |-> NoPair]
    /\ aborted = FALSE
    /\ pushed = <<>>
    /\ batchLog = <<>>

PipeIdle == PipeOff /\ nrThreads = 0

NoTx == <<>>

\* No worker shares the store.
PoolIdle ==
    /\ wposts = [w \in Workers |-> <<>>]
    /\ wstmts = [w \in Workers |-> <<>>]
    /\ wtx = [w \in Workers |-> NoTx]
    /\ wtagId = [w \in Workers |-> 0]
    /\ poolErrs = {}

ReqIdle ==
    /\ reqStart = 0
    /\ reqStop = 0
    /\ reqOutcome = "ok"
    /\ reqBody = <<>>
    /\ reqPc = "returned"
    /\ reqResult = <<>>
    /\ inserted = <<>>
    /\ saved = <<>>

\* The posts of one sub-range, and the sub-ranges of a run: at most MaxCalls
\* posts in all.
Batches == UNION {[1..n -> SamplePosts] : n \in 1..MaxCalls}

RECURSIVE Flat(_)
Flat(js) == IF js = <<>> THEN <<>> ELSE Head(js) \o Flat(Tail(js))

Jobs ==
    {js \in UNION {[1..m -> Batches] : m \in 1..MaxCalls} :
        Len(Flat(js)) <= MaxCalls}

DbInit == DbFresh /\ jobs \in Jobs /\ PipeIdle /\ ReqIdle /\ PoolIdle

DbNext ==
    \/ NextBatch
    \/ InsertPost
    \/ TagsBegin
    \/ TagPrepare
    \/ TagInsert
    \/ TagCommit
    \/ EdgeBegin
    \/ EdgePrepare
    \/ EdgeQuery
    \/ EdgeInsert
    \/ EdgeCommit
    \/ RelBegin
    \/ FavPrepare
    \/ FavInsert
    \/ FavCommit
    \/ PoolBegin
    \/ PoolPrepare
    \/ PoolInsert
    \/ PoolCommit

\* A sequence of dbInsert calls, one statement per step.
DbSpec == DbInit /\ [][DbNext]_vars

(***************************************************************************)
(* requestPost. A post is its Id here; the zero Post has Id 0.              *)
(***************************************************************************)
ReqIds == 51..(50 + MaxReqIds)

RECURSIVE Descending(_)
Descending(S) ==
    IF S = {} THEN <<>>
    ELSE LET m == CHOOSE x \in S : \A y \in S : y <= x
         IN <<m>> \o Descending(S \ {m})

RECURSIVE Reverse(_)
Reverse(seq) ==
    IF seq = <<>> THEN <<>> ELSE Append(Reverse(Tail(seq)), Head(seq))

\* What a response body may decode to: any set of posts, listed by
\* descending or by ascending Id.
Bodies ==
    {Descending(S) : S \in SUBSET ReqIds} \cup
    {Reverse(Descending(S)) : S \in SUBSET ReqIds}

Outcomes == {"ok", "neterr", "status", "decodeerr"}

\* A mutant of IsBelow: a post whose Id equals startId is cut off too.
IsBelowOrEqual(id, lo) == id <= lo

\* p[i].Id < startId
IsBelow(id, lo) == id < lo

\* Filter p so there are no posts with id < startId: p[:pLen], pLen being
\* the position of the first post below startId.
Trim(p, lo) ==
    LET below == {i \in 1..Len(p) : IsBelow(p[i], lo)}
        pLen == IF below = {} THEN Len(p)
                ELSE (CHOOSE i \in below : \A j \in below : i <= j) - 1
    IN SubSeq(p, 1, pLen)

\* A mutant of requestPost: the decoded posts are returned as they came,
\* without the cut at startId.
requestPostUntrimmed(lo, hi, outcome, body) ==
    IF outcome \in {"neterr", "status"} THEN <<>>
    ELSE IF lo = hi
         THEN <<IF body = <<>> THEN 0 ELSE body[1]>>
         ELSE body

\* The []Post that requestPost(lo, hi) returns when the request ends with
\* `outcome` and the body decodes to `body` (as far as decoding got).
requestPost(lo, hi, outcome, body) ==
    IF outcome \in {"neterr", "status"} THEN <<>>
    ELSE LET p == IF lo = hi
                  THEN <<IF body = <<>> THEN 0 ELSE body[1]>>
                  ELSE body
         IN IF outcome = "decodeerr" THEN p ELSE Trim(p, lo)

ReqInit ==
    /\ reqStart \in (50 - dbooruLimit)..(51 + MaxReqIds)
    /\ reqStop \in reqStart..(51 + MaxReqIds)
    /\ reqOutcome \in Outcomes
    /\ reqBody \in Bodies
    /\ (reqStart = reqStop /\ reqOutcome = "ok") => Len(reqBody) = 1
    /\ reqPc = "call"
    /\ reqResult = <<>>
    /\ inserted = <<>>
    /\ saved = <<>>
    /\ DbIdle
    /\ PipeIdle
    /\ PoolIdle

\* One call of requestPost: log.Fatalf on a range wider than dbooruLimit,
\* else the request, the decoding and the trimming.
RequestPost ==
    /\ reqPc = "call"
    /\ IF reqStop - reqStart > dbooruLimit
       THEN /\ reqPc' = "fatal"
            /\ UNCHANGED reqResult
       ELSE /\ reqPc' = "returned"
            /\ reqResult' = requestPost(reqStart, reqStop, reqOutcome, reqBody)
    /\ UNCHANGED <<reqStart, reqStop, reqOutcome, reqBody, inserted, saved>>
    /\ UNCHANGED <<pipeVars, dbVars, poolVars>>

\* One iteration of the loop of scrapeBatch over ps, the result of
\* requestPost: dbInsert(&ps[i], db), then saveFile(&ps[i], ...).
BatchPost ==
    /\ reqPc = "returned"
    /\ Len(inserted) < Len(reqResult)
    /\ inserted' = Append(inserted, reqResult[Len(inserted) + 1])
    /\ saved' = Append(saved, reqResult[Len(inserted) + 1])
    /\ UNCHANGED <<reqStart, reqStop, reqOutcome, reqBody, reqPc, reqResult>>
    /\ UNCHANGED <<pipeVars, dbVars, poolVars>>

ReqNext == RequestPost \/ BatchPost

ReqSpec == ReqInit /\ [][ReqNext]_vars

WorkerRecv == \E w \in Workers : Recv(w)
WorkerScrapeBatch == \E w \in Workers : ScrapeBatch(w)
WorkerDone == \E w \in Workers : WorkerExit(w)

Init == PipeInit /\ DbIdle /\ ReqIdle /\ PoolIdle

Next ==
    \/ ScrapeRangeEnter
    \/ ScrapeRangeSingle
    \/ Spawn
    \/ Produce
    \/ Close
    \/ Wait
    \/ WorkerRecv
    \/ WorkerScrapeBatch
    \/ WorkerDone

Spec == Init /\ [][Next]_vars

\* The goroutine scheduler runs every runnable goroutine: weak fairness for the
\* goroutine of scrapeRange and for each worker, a scrapeBatch call included.
MainStep ==
    ScrapeRangeEnter \/ ScrapeRangeSingle \/ Spawn \/ Produce \/ Close \/ Wait

WorkerStep(w) == Recv(w) \/ ScrapeBatch(w) \/ WorkerExit(w)

FairSpec ==
    /\ Init
    /\ [][Next]_vars
    /\ WF_vars(MainStep)
    /\ \A w \in Workers : WF_vars(WorkerStep(w))

(***************************************************************************)
(* Observations on the histories.                                          *)
(***************************************************************************)
Events(ev, job) ==
    {i \in 1..Len(batchLog) : batchLog[i].ev = ev /\ batchLog[i].job = job}

Begun == {batchLog[i].job : i \in {j \in 1..Len(batchLog) : batchLog[j].ev = "begin"}}

Ids(job) == job.first..(job.second - 1)

\* Sub-ranges pushed and not yet received.
Pending == Len(chanBuf) + (IF sendVal = NoPair THEN 0 ELSE 1)

ProducerDone == mainPc \in {"close", "wait", "returned"}

(***************************************************************************)
(* C1: for start <= stop the sub-ranges pushed into the job queue are       *)
(* non-empty, of width <= dbooruLimit, contiguous from startId (hence       *)
(* pairwise disjoint), and once the producer has left its loop they end     *)
(* exactly at stopId: together they cover [startId, stopId).               *)
(***************************************************************************)
C1_Partition ==
    startId <= stopId =>
        /\ \A k \in 1..Len(pushed) :
              /\ pushed[k].first < pushed[k].second
              /\ pushed[k].second - pushed[k].first <= dbooruLimit
              /\ pushed[k].first = IF k = 1 THEN startId ELSE pushed[k - 1].second
        /\ ProducerDone =>
              IF pushed = <<>> THEN startId = stopId
              ELSE pushed[Len(pushed)].second = stopId

\* Three sub-ranges were pushed and the last one was clipped.
C1_Witness ==
    /\ ProducerDone
    /\ Len(pushed) = 3
    /\ pushed[3].second - pushed[3].first < dbooruLimit

(***************************************************************************)
(* C2: when scrapeRange (start < stop) has returned, the queue is closed,   *)
(* every one of the nrThreads workers has signalled termination, nothing    *)
(* is left in the queue, and scrapeBatch has begun and ended for every      *)
(* sub-range pushed.                                                       *)
(***************************************************************************)
C2_ReturnAfterAll ==
    (mainPc = "returned" /\ startId < stopId) =>
        /\ chanClosed
        /\ \A w \in 1..nrThreads : wpc[w] = "exited"
        /\ Pending = 0
        /\ \A k \in 1..Len(pushed) :
              /\ Events("begin", pushed[k]) # {}
              /\ Events("end", pushed[k]) # {}

\* scrapeRange has returned after two workers shared at least two batches.
C2_Witness ==
    /\ mainPc = "returned"
    /\ nrThreads >= 2
    /\ Len(pushed) >= 2
    /\ \E i, j \in 1..Len(batchLog) : batchLog[i].who # batchLog[j].who

(***************************************************************************)
(* C3: in every interleaving each pushed sub-range is received at most      *)
(* once and scrapeBatch ends on it at most once; what was received was      *)
(* pushed; a pushed sub-range is either still pending or was received;      *)
(* and no post ID lies in two received sub-ranges.                         *)
(***************************************************************************)
C3_ExactlyOnce ==
    startId < stopId =>
        /\ \A i \in 1..Len(batchLog) :
              /\ \E k \in 1..Len(pushed) : pushed[k] = batchLog[i].job
              /\ Cardinality(Events(batchLog[i].ev, batchLog[i].job)) = 1
        /\ Cardinality(Begun) + Pending = Len(pushed)
        /\ \A a, b \in Begun : a # b => Ids(a) \cap Ids(b) = {}
        /\ mainPc = "returned" =>
              \A k \in 1..Len(pushed) :
                  /\ Cardinality(Events("begin", pushed[k])) = 1
                  /\ Cardinality(Events("end", pushed[k])) = 1

\* Three sub-ranges went to three different workers, all finished.
C3_Witness ==
    /\ mainPc = "returned"
    /\ Len(batchLog) = 6
    /\ Cardinality({batchLog[i].who : i \in 1..Len(batchLog)}) = 3

(***************************************************************************)
(* C4: with start < stop and at least one worker, under fair scheduling     *)
(* scrapeRange eventually returns.                                         *)
(***************************************************************************)
C4_Returns ==
    (startId < stopId /\ nrThreads >= 1) ~> (mainPc = "returned")

\* A run with one worker and three sub-ranges that has returned.
C4_Witness ==
    /\ mainPc = "returned"
    /\ nrThreads = 1
    /\ Len(pushed) = 3

(***************************************************************************)
(* C5: a worker that has terminated did so with the queue closed and with   *)
(* every pushed sub-range received; and a worker only ever terminates in a  *)
(* step taken with the queue already closed.                               *)
(***************************************************************************)
C5_ExitOnlyOnClose ==
    \A w \in Workers :
        wpc[w] = "exited" =>
            /\ chanClosed
            /\ ProducerDone
            /\ Pending = 0
            /\ \A k \in 1..Len(pushed) : Events("begin", pushed[k]) # {}

\* One worker has terminated while another is still inside scrapeBatch.
C5_Witness ==
    \E w, v \in Workers : wpc[w] = "exited" /\ wpc[v] = "batch"

(***************************************************************************)
(* C6: at most one pushed sub-range is waiting to be received, and the      *)
(* producer starts pushing sub-range k+1 only after sub-range k was         *)
(* received.                                                               *)
(***************************************************************************)
C6_Backpressure ==
    /\ Pending <= 1
    /\ Len(pushed) <= Cardinality(Begun) + 1
    /\ \A k \in 1..Len(pushed) - 1 : Events("begin", pushed[k]) # {}

\* The producer is blocked on the second sub-range while the first is still
\* being processed and another worker is free.
C6_Witness ==
    /\ mainPc = "send"
    /\ Len(pushed) = 2
    /\ \E w, v \in Workers : wpc[w] = "batch" /\ wpc[v] = "recv"

(***************************************************************************)
(* C7: sub-ranges are pushed in strictly ascending order of lower bound;    *)
(* with one worker they are processed in that order, each batch ending      *)
(* before the next begins; range [1,41) yields exactly [1,21), [21,41).     *)
(***************************************************************************)
C7_Order ==
    /\ \A k \in 1..Len(pushed) - 1 : pushed[k].first < pushed[k + 1].first
    /\ (nrThreads = 1 /\ startId < stopId) =>
          \A i \in 1..Len(batchLog) :
              /\ (i + 1) \div 2 <= Len(pushed)
              /\ batchLog[i].job = pushed[(i + 1) \div 2]
              /\ batchLog[i].ev = IF i % 2 = 1 THEN "begin" ELSE "end"
    /\ (startId = 1 /\ stopId = 41 /\ ProducerDone) =>
          pushed = <<intPair(1, 21), intPair(21, 41)>>

\* The single worker has finished [1,21) and [21,41), in that order.
C7_Witness ==
    /\ nrThreads = 1
    /\ startId = 1
    /\ stopId = 41
    /\ mainPc = "returned"
    /\ Len(batchLog) = 4

(***************************************************************************)
(* Observations on the store.                                              *)
(***************************************************************************)
Range(seq) == {seq[i] : i \in 1..Len(seq)}

\* The tag names dbInsert sends to the store for post p, per category.
TagNamesOf(p, k) ==
    IF TrimSpace(TagString(p, k)) = <<>> THEN {} ELSE Range(Split(TagString(p, k)))

TagNames(p) == UNION {TagNamesOf(p, k) : k \in 1..4}

HasRelations(p) ==
    TrimSpace(p.FavString) # <<>> \/ TrimSpace(p.PoolString) # <<>>

\* The user IDs and pool IDs dbInsert sends to the store for post p.
FavIds(p) ==
    IF HasRelations(p)
    THEN {Atoi(TrimPrefix(t, FavPrefix)).val :
             t \in {u \in Range(Split(p.FavString)) : Atoi(TrimPrefix(u, FavPrefix)).ok}}
    ELSE {}

PoolIds(p) ==
    IF HasRelations(p)
    THEN {Atoi(TrimPrefix(t, PoolPrefix)).val :
             t \in {u \in Range(Split(p.PoolString)) : Atoi(TrimPrefix(u, PoolPrefix)).ok}}
    ELSE {}

TagRows(name) == {r \in db.tags : r.name = name}

HasEdge(name, id) == \E r \in TagRows(name) : <<r.id, id>> \in db.tagged

\* The relational fan-out of post p is in the store, and nothing more of it.
Persisted(p) ==
    /\ p.Id \in db.posts
    /\ \A name \in TagNames(p) :
          Cardinality(TagRows(name)) = 1 /\ HasEdge(name, p.Id)
    /\ {e \in db.favorites : e[2] = p.Id} = {<<u, p.Id>> : u \in FavIds(p)}
    /\ {e \in db.pooled : e[2] = p.Id} = {<<q, p.Id>> : q \in PoolIds(p)}

\* The errors of call c that are not a mere consequence of an earlier failure
\* in the same transaction.
RootErrors(c) == {e \in errLog : e.call = c /\ e.why # "aborted"}

SecondCallOfSamePost ==
    /\ dbPc = "idle"
    /\ callNo = 2
    /\ calls[1] = calls[2]
    /\ faults = 0

(***************************************************************************)
(* C8: after dbInsert has run twice on the same post on a healthy store,    *)
(* the post row, one tag row per tag name and one edge per (tag, post),     *)
(* (user, post), (pool, post) pair are there, and no statement of the       *)
(* second call failed with a duplicate key.                                *)
(***************************************************************************)
C8_Idempotent ==
    SecondCallOfSamePost =>
        /\ Persisted(post)
        /\ ~ \E e \in errLog : e.call = 2 /\ e.why = "dupkey"

\* C8, the part about the rows alone: it holds, the second call changing
\* nothing because its first statement fails.
C8_RowsOnly == SecondCallOfSamePost => Persisted(post)

(***************************************************************************)
(* C9: when exactly one (tag, post) edge insert of a dbInsert call failed   *)
(* and nothing else went wrong, then after dbInsert has returned the post   *)
(* row, every tag row of the post and the edges of all its other tags are   *)
(* in the store.                                                           *)
(***************************************************************************)
C9_EdgeFailureIsolated ==
    \A e \in errLog :
        (/\ dbPc = "idle"
         /\ e.call = callNo
         /\ e.stmt = "edge"
         /\ RootErrors(callNo) = {e}
         /\ {x \in errLog : x.call = callNo /\ x.stmt = "edge"} = {e}
         /\ \A x \in errLog : x.call # callNo => x.why = "aborted") =>
            /\ post.Id \in db.posts
            /\ \A name \in TagNames(post) : TagRows(name) # {}
            /\ \A name \in TagNames(post) \ {e.tok} : HasEdge(name, post.Id)

\* C9, what does hold: the post row, every tag row, and the edges of the
\* tags of the other three tag strings.
C9_OtherStringsKept ==
    \A e \in errLog :
        (/\ dbPc = "idle"
         /\ e.call = callNo
         /\ e.stmt = "edge"
         /\ RootErrors(callNo) = {e}
         /\ callNo = 1) =>
            /\ post.Id \in db.posts
            /\ \A name \in TagNames(post) : TagRows(name) # {}
            /\ \A k \in 1..4 :
                  k # e.cat => \A name \in TagNamesOf(post, k) : HasEdge(name, post.Id)

(***************************************************************************)
(* C10: for a response listing posts by descending ID and a sub-range       *)
(* [lo, hi) with lo < hi, requestPost returns exactly the posts of the      *)
(* response whose ID is >= lo, in response order.                          *)
(***************************************************************************)
IsDescending(seq) == \A i \in 1..Len(seq) - 1 : seq[i] > seq[i + 1]

C10_Trimming ==
    (/\ reqPc = "returned"
     /\ reqOutcome = "ok"
     /\ reqStart < reqStop
     /\ IsDescending(reqBody)) =>
        reqResult = SelectSeq(reqBody, LAMBDA id : id >= reqStart)

\* Response [55,54,53,52,51] with sub-range [53,56) returned [55,54,53].
C10_Witness ==
    /\ reqPc = "returned"
    /\ reqOutcome = "ok"
    /\ reqBody = <<55, 54, 53, 52, 51>>
    /\ reqStart = 53
    /\ reqStop = 56
    /\ reqResult = <<55, 54, 53>>

(***************************************************************************)
(* C11: whenever the fetch of requestPost fails (transport failure,         *)
(* non-200 status, JSON decode failure; paged or single-post path), the     *)
(* batch yields zero posts: scrapeBatch calls neither dbInsert nor          *)
(* saveFile for that sub-range.                                            *)
(***************************************************************************)
C11_FailedFetchIsEmpty ==
    (reqPc = "returned" /\ reqOutcome # "ok") =>
        /\ reqResult = <<>>
        /\ inserted = <<>>
        /\ saved = <<>>

\* C11, what does hold: a transport failure or a non-200 status yields no
\* post, on both paths.
C11_FailedRequestIsEmpty ==
    (reqPc = "returned" /\ reqOutcome \in {"neterr", "status"}) =>
        /\ reqResult = <<>>
        /\ inserted = <<>>
        /\ saved = <<>>

(***************************************************************************)
(* C13: in every run of scrapeRange with start <= stop, for any number of   *)
(* workers, every sub-range handed to scrapeBatch, and so to requestPost,   *)
(* has stopId - startId <= dbooruLimit: the fatal abort of requestPost is   *)
(* never taken.                                                            *)
(***************************************************************************)
C13_WidthWithinLimit ==
    startId <= stopId =>
        /\ ~aborted
        /\ \A w \in Workers :
              wpc[w] = "batch" =>
                  wparams[w].second - wparams[w].first <= dbooruLimit
        /\ \A i \in 1..Len(batchLog) :
              batchLog[i].job.second - batchLog[i].job.first <= dbooruLimit

\* A worker has finished a sub-range of exactly the widest width allowed in a
\* run of at least two sub-ranges.
C13_Witness ==
    \E i \in 1..Len(batchLog) :
       /\ batchLog[i].ev = "end"
       /\ batchLog[i].who # 0
       /\ batchLog[i].job.second - batchLog[i].job.first = dbooruLimit
       /\ Len(pushed) >= 2

\* The INSERT INTO posts of call c succeeded.
PostInserted(c) == ~ \E e \in errLog : e.call = c /\ e.stmt = "post"

\* The post IDs referenced by the edges of the three relations.
EdgePosts ==
    {e[2] : e \in db.tagged} \cup {e[2] : e \in db.favorites}
        \cup {e[2] : e \in db.pooled}

(***************************************************************************)
(* C12: dbInsert goes past its first statement only when the post row was   *)
(* inserted, so a call whose post insert failed writes no tag, tagged,      *)
(* favorites or pooled row; every edge in the store references a post of    *)
(* the store that a dbInsert call inserted, and rows and edges only change  *)
(* in a call for the post whose row that call inserted.                    *)
(***************************************************************************)
C12_NothingAfterFailedPost ==
    /\ [](dbPc # "idle" => PostInserted(callNo) /\ post.Id \in db.posts)
    /\ [](\A id \in EdgePosts :
             /\ id \in db.posts
             /\ \E c \in 1..callNo : calls[c].Id = id /\ PostInserted(c))
    /\ [][/\ ~PostInserted(callNo') =>
                /\ db'.tags = db.tags
                /\ db'.tagged = db.tagged
                /\ db'.favorites = db.favorites
                /\ db'.pooled = db.pooled
          /\ \A e \in (db'.tagged \ db.tagged) \cup (db'.favorites \ db.favorites)
                        \cup (db'.pooled \ db.pooled) : e[2] = post.Id]_vars

\* A second call failed at its post insert and returned, while the edges of
\* the first call are in the store.
C12_Witness ==
    /\ callNo = 2
    /\ dbPc = "idle"
    /\ PostInserted(1)
    /\ ~PostInserted(2)
    /\ calls[1].Id # calls[2].Id
    /\ db.tagged # {}
    /\ db.favorites # {}
    /\ calls[2].Id \notin db.posts

\* Call c of dbInsert has returned.
Returned(c) == c < callNo \/ (c = callNo /\ dbPc = "idle")

\* The transaction events of call c for the favorites and the pools.
RelEvents(c) ==
    {i \in 1..Len(txLog) : txLog[i].call = c /\ txLog[i].kind \in {"fav", "pool"}}

\* The errors of call c after the tags.
RelErrors(c) == {e \in errLog : e.call = c /\ e.cat = 0 /\ e.stmt # "post"}

(***************************************************************************)
(* C14: a post whose favorites string and pool string are both empty after  *)
(* trimming makes dbInsert begin no transaction for the favorites or the    *)
(* pools, and issue no statement for them. When one of the two strings is   *)
(* not empty, a dbInsert call that gets to the relations does their work:   *)
(* it calls db.Begin() for them, which begins the transaction or fails.     *)
(***************************************************************************)
C14_BlankSkipsRelations ==
    \A c \in 1..callNo :
        LET fav == TrimSpace(calls[c].FavString)
            pool == TrimSpace(calls[c].PoolString)
        IN /\ (fav = <<>> /\ pool = <<>>) =>
                 RelEvents(c) = {} /\ RelErrors(c) = {}
           /\ ((fav # <<>> \/ pool # <<>>) /\ PostInserted(c) /\ Returned(c)) =>
                 \/ \E i \in RelEvents(c) : txLog[i].ev = "begin"
                 \/ Err(c, 0, "begin", "fault", <<>>) \in errLog

\* A call for a post with blank strings has returned without a relation
\* transaction, and a call for a post with favorites and no pools has run them.
C14_Witness ==
    /\ callNo = 2
    /\ dbPc = "idle"
    /\ PostInserted(1)
    /\ PostInserted(2)
    /\ TrimSpace(calls[1].FavString) = <<>>
    /\ calls[1].FavString # <<>>
    /\ TrimSpace(calls[1].PoolString) = <<>>
    /\ RelEvents(1) = {}
    /\ TrimSpace(calls[2].FavString) # <<>>
    /\ TrimSpace(calls[2].PoolString) = <<>>
    /\ \E i \in RelEvents(2) : txLog[i].kind = "fav" /\ txLog[i].ev = "commit"
    /\ db.favorites # {}

\* The rows no rollback can take away: the store outside a transaction, the
\* snapshot inside one.
Committed == IF txState = "none" THEN db ELSE txSnap

\* Some statement of call c failed.
Failed(c) == \E e \in errLog : e.call = c

(***************************************************************************)
(* C15: no failure of an insert stops the run. The posts passed to dbInsert *)
(* are, at every moment, the first posts of the sub-ranges in order, none   *)
(* left out; as long as a post of some sub-range remains, the run can take  *)
(* a step (so every remaining post of the batch and every remaining         *)
(* sub-range is reached); and what is committed is never taken back.        *)
(***************************************************************************)
C15_RunGoesOn ==
    /\ [](calls = SubSeq(Flat(jobs), 1, callNo))
    /\ [](callNo < Len(Flat(jobs)) => ENABLED DbNext)
    /\ [][/\ Committed.posts \subseteq Committed'.posts
          /\ Committed.tags \subseteq Committed'.tags
          /\ Committed.tagged \subseteq Committed'.tagged
          /\ Committed.favorites \subseteq Committed'.favorites
          /\ Committed.pooled \subseteq Committed'.pooled]_vars

\* The first post of a sub-range of two had a failed insert with rows of it
\* committed before; the second post was passed to dbInsert all the same and
\* is in the store with its tags, next to what the first call committed.
C15_Witness ==
    /\ Len(jobs) = 1
    /\ callNo = 2
    /\ dbPc = "idle"
    /\ Failed(1)
    /\ ~Failed(2)
    /\ calls[1].Id \in db.posts
    /\ calls[2].Id \in db.posts
    /\ calls[1].Id # calls[2].Id
    /\ \E e \in db.tagged : e[2] = calls[1].Id
    /\ \E e \in db.tagged : e[2] = calls[2].Id

\* The same across sub-ranges: the post of the first sub-range failed at its
\* post insert, and the post of the second sub-range is in the store.
C15_WitnessNextBatch ==
    /\ Len(jobs) = 2
    /\ callNo = 2
    /\ dbPc = "idle"
    /\ ~PostInserted(1)
    /\ calls[2].Id \in db.posts
    /\ \E e \in db.tagged : e[2] = calls[2].Id

\* The begin, commit and rollback of the relation transactions of call c, in
\* the order they happened.
RelTrace(c) ==
    LET rel(e) == e.call = c /\ e.kind \in {"fav", "pool"}
        kindEv(e) == <<e.kind, e.ev>>
        RECURSIVE Pick(_)
        Pick(log) == IF log = <<>> THEN <<>>
                     ELSE IF rel(Head(log))
                          THEN <<kindEv(Head(log))>> \o Pick(Tail(log))
                          ELSE Pick(Tail(log))
    IN Pick(txLog)

\* Call c got to the relations with something to insert and met no error.
CleanRelationCall(c) ==
    /\ Returned(c)
    /\ ~Failed(c)
    /\ \/ TrimSpace(calls[c].FavString) # <<>>
       \/ TrimSpace(calls[c].PoolString) # <<>>

(***************************************************************************)
(* C16: when the favorites or the pool string is not empty, dbInsert        *)
(* inserts all favorites edges and all pooled edges of the post inside one  *)
(* transaction, begun once and committed once for both relations.          *)
(***************************************************************************)
C16_OneRelationTx ==
    \A c \in 1..callNo :
        CleanRelationCall(c) =>
            /\ Len(RelTrace(c)) = 2
            /\ RelTrace(c)[1][2] = "begin"
            /\ RelTrace(c)[2][2] = "commit"

\* C16, what the code does: the favorites are committed in a transaction of
\* their own, and the pools in a second one.
C16_TwoRelationTx ==
    \A c \in 1..callNo :
        CleanRelationCall(c) =>
            RelTrace(c) = << <<"fav", "begin">>, <<"fav", "commit">>,
                             <<"pool", "begin">>, <<"pool", "commit">> >>

\* The lookups of tag names that failed, and the edge inserts that were
\* issued and failed, as (call, category, tag name).
FailedLookups == {<<e.call, e.cat, e.tok>> : e \in {x \in errLog : x.stmt = "lookup"}}

FailedEdges == {<<e.call, e.cat, e.tok>> : e \in {x \in errLog : x.stmt = "edge"}}

(***************************************************************************)
(* C17: dbInsertTags issues the (tag, post) edge insert only with a tag ID  *)
(* that a successful lookup of the tag name returned: at the moment the     *)
(* insert is issued the lookup of that name has not failed and tagId is the *)
(* ID of the tag row of that name, and no tag has both a failed lookup and  *)
(* an edge insert that was issued and failed.                               *)
(***************************************************************************)
C17_EdgeOnlyAfterLookup ==
    /\ dbPc = "edgeIns" =>
          /\ <<callNo, cat, toks[idx]>> \notin FailedLookups
          /\ \E r \in db.tags : r.id = tagId /\ r.name = toks[idx]
    /\ FailedLookups \cap FailedEdges = {}

\* C17, what does hold: an edge that is written carries the ID of a tag row
\* whose name is a token of the post's string of that call.
C17_WrittenEdgesResolved ==
    \A e \in db.tagged :
        \E r \in db.tags, c \in 1..callNo, k \in 1..4 :
            /\ r.id = e[1]
            /\ calls[c].Id = e[2]
            /\ r.name \in Range(Split(TagString(calls[c], k)))

(***************************************************************************)
(* C18: the tag names dbInsertTags inserts are the whitespace-separated     *)
(* tokens of the string: every tag row has a name that is not empty and     *)
(* holds no whitespace, also for strings with leading, trailing or          *)
(* repeated spaces.                                                        *)
(***************************************************************************)
C18_NamesAreTokens ==
    \A r \in db.tags :
        /\ r.name # <<>>
        /\ \A i \in 1..Len(r.name) : r.name[i] \notin Whitespace

\* C18, what does hold: every tag name is a piece strings.Split(tags, " ")
\* cuts from a tag string of a post passed to dbInsert; a piece between two
\* adjacent spaces, or before a leading one, is the empty string.
C18_NamesArePieces ==
    \A r \in db.tags :
        \E c \in 1..callNo, k \in 1..4 :
            /\ r.name \in TagNamesOf(calls[c], k)
            /\ \A i \in 1..Len(r.name) : r.name[i] # " "

\* The positions in txLog of the events ev of the transactions of this kind.
TxAt(kind, ev) == {i \in 1..Len(txLog) : txLog[i].kind = kind /\ txLog[i].ev = ev}

\* Every tag name of string k of call c has its row, in the store and in
\* what would be left of it after a rollback.
TagRowsKept(c, k) ==
    \A name \in TagNamesOf(calls[c], k) :
        /\ \E r \in db.tags : r.name = name
        /\ \E r \in Committed.tags : r.name = name

\* The edge transaction of string k of call c failed: at Begin, or rolled back
\* at Commit after a failed Prepare, statement or commit.
EdgeTxFailed(c, k) ==
    \/ \E i \in TxAt("edges", "rollback") : txLog[i].call = c /\ txLog[i].cat = k
    \/ /\ \E i \in TxAt("tags", "commit") : txLog[i].call = c /\ txLog[i].cat = k
       /\ Err(c, k, "begin", "fault", <<>>) \in errLog

(***************************************************************************)
(* C19: dbInsertTags commits the transaction of the tag rows before it      *)
(* begins the transaction of the edges: the edge transaction of a string    *)
(* begins right after the commit of its tag transaction, and from that      *)
(* commit on every tag name of the string has its row in the store, also    *)
(* when the edge transaction fails at begin, prepare, an insert or commit.  *)
(***************************************************************************)
C19_TagsDurable ==
    /\ \A i \in TxAt("edges", "begin") :
          /\ i > 1
          /\ txLog[i - 1] = [txLog[i] EXCEPT !.kind = "tags", !.ev = "commit"]
    /\ \A i \in TxAt("tags", "commit") : TagRowsKept(txLog[i].call, txLog[i].cat)
    /\ \A c \in 1..callNo, k \in 1..4 :
          EdgeTxFailed(c, k) => TagRowsKept(c, k)

\* The edge transaction of a string with two tag names was rolled back, the
\* call has returned, and both tag rows are in the store without an edge.
C19_Witness ==
    \E i \in TxAt("edges", "rollback") :
        LET c == txLog[i].call
            k == txLog[i].cat
        IN /\ Returned(c)
           /\ Cardinality(TagNamesOf(calls[c], k)) >= 2
           /\ TagRowsKept(c, k)
           /\ \A name \in TagNamesOf(calls[c], k) :
                 \A r \in db.tags :
                     r.name = name => <<r.id, calls[c].Id>> \notin db.tagged

\* The number of transactions begun and not yet committed or rolled back.
OpenTx ==
    Cardinality({i \in 1..Len(txLog) : txLog[i].ev = "begin"})
        - Cardinality({i \in 1..Len(txLog) : txLog[i].ev # "begin"})

\* dbInsertTags or dbInsert has just returned, or is about to be called.
AtReturn == dbPc \in {"idle", "tags", "rel"}

(***************************************************************************)
(* C20: every transaction dbInsert or dbInsertTags begins is committed or   *)
(* rolled back before the function returns, on every exit path: at most     *)
(* one transaction is open at any time, each begin is followed by the       *)
(* commit or rollback of that same transaction before the next begin, and   *)
(* none is open when dbInsertTags or dbInsert returns, so none is open      *)
(* between the posts of scrapeBatch or after it.                           *)
(***************************************************************************)
C20_NoTxLeftOpen ==
    /\ OpenTx \in {0, 1}
    /\ OpenTx = 1 <=> txState # "none"
    /\ AtReturn => OpenTx = 0
    /\ \A i \in 1..Len(txLog) :
          IF i % 2 = 1
          THEN txLog[i].ev = "begin"
          ELSE /\ txLog[i].ev \in {"commit", "rollback"}
               /\ txLog[i] = [txLog[i - 1] EXCEPT !.ev = txLog[i].ev]

\* dbInsert has returned from a call in which a Prepare failed inside a
\* transaction, which was rolled back.
C20_Witness ==
    /\ dbPc = "idle"
    /\ \E e \in errLog :
          /\ e.stmt = "prepare"
          /\ e.call = callNo
          /\ \E i \in 1..Len(txLog) :
                /\ txLog[i].call = e.call
                /\ txLog[i].cat = e.cat
                /\ txLog[i].ev = "rollback"
    /\ OpenTx = 0
    /\ Len(txLog) >= 4

\* scrapeRange was called with no worker and more than one post to scrape.
NoWorkers == nrThreads = 0 /\ startId < stopId

(***************************************************************************)
(* C24: with nrThreads = 0 and start < stop, scrapeRange never returns. It  *)
(* gets no further than its first send on paramChannel: the channel is      *)
(* never closed, no scrapeBatch is ever begun, only the first pair is ever  *)
(* offered, and once the producer is at that send it stays there forever.   *)
(***************************************************************************)
C24_NoWorkersNeverReturns ==
    /\ [](NoWorkers =>
            /\ mainPc \in {"start", "spawn", "loop", "send"}
            /\ ~chanClosed
            /\ ~aborted
            /\ spawned = 0
            /\ batchLog = <<>>
            /\ chanBuf = <<>>
            /\ Len(pushed) <= 1
            /\ mainPc = "send" =>
                  /\ pushed = <<sendVal>>
                  /\ sendVal.first = startId)
    /\ NoWorkers ~> [](mainPc = "send")

\* The producer is blocked in its first send, with nobody to receive.
C24_Witness ==
    /\ NoWorkers
    /\ mainPc = "send"
    /\ sendVal = intPair(startId, startId + dbooruLimit)
    /\ stopId > startId + dbooruLimit

\* The goroutines started so far, and those inside scrapeBatch.
Alive == {w \in Workers : wpc[w] # "unborn"}

Busy == {w \in Workers : wpc[w] = "batch"}

\* The scrapeBatch calls begun and not yet ended, by the history.
InProgress ==
    Cardinality({i \in 1..Len(batchLog) : batchLog[i].ev = "begin"})
        - Cardinality({i \in 1..Len(batchLog) : batchLog[i].ev = "end"})

\* The spawning loop is over.
SpawningDone == mainPc \notin {"start", "spawn"}

\* What C22 says of a state: no more than nrThreads sub-ranges in progress,
\* and nrThreads goroutines started, no more at any time and no fewer once
\* the spawning loop is over.
BoundedByPool ==
    /\ Cardinality(Busy) <= nrThreads
    /\ InProgress <= nrThreads
    /\ Alive = 1..spawned
    /\ spawned <= nrThreads
    /\ SpawningDone => spawned = nrThreads

(***************************************************************************)
(* C22, as stated: in every reachable state of scrapeRange called with N    *)
(* workers, at most N sub-ranges are being fetched or persisted at the      *)
(* same time, and exactly N workers are spawned, whatever the number of     *)
(* sub-ranges.                                                              *)
(***************************************************************************)
C22_BoundedByPoolAlways == BoundedByPool

(***************************************************************************)
(* C22, amended: the statement holds for start < stop. For start = stop     *)
(* scrapeRange spawns no worker at all and runs its one scrapeBatch in the  *)
(* caller, also when N = 0.                                                 *)
(***************************************************************************)
C22_BoundedByPool ==
    /\ startId < stopId => BoundedByPool
    /\ startId = stopId => spawned = 0 /\ Alive = {} /\ InProgress <= 1

\* All three workers of a pool of three are inside scrapeBatch, each with a
\* sub-range of its own, and the spawning loop has started exactly three.
C22_Witness ==
    /\ nrThreads = MaxThreads
    /\ spawned = nrThreads
    /\ Busy = Workers
    /\ InProgress = nrThreads
    /\ Len(pushed) = nrThreads

(***************************************************************************)
(* The remote service as the paged query sees it: a set of existing post    *)
(* IDs. The answer to ?tags=id:<hi&limit=20 is the dbooruLimit highest      *)
(* existing IDs below hi, by descending ID. The remotes considered: every   *)
(* ID exists; none does; runs without a gap next to deleted posts; every    *)
(* third ID; posts only outside of any range scraped.                       *)
(***************************************************************************)
Mixed == (1..23) \cup {26, 30, 40, 41, 43, 44, 45, 46, 50}

Remotes ==
    { 1..50,
      {},
      Mixed,
      {e \in 1..50 : e % 3 = 0},
      {1} \cup (47..50) }

RECURSIVE TopBelow(_, _, _)
TopBelow(existing, hi, n) ==
    LET below == {e \in existing : e < hi}
        m == CHOOSE x \in below : \A y \in below : y <= x
    IN IF n = 0 \/ below = {} THEN <<>>
       ELSE <<m>> \o TopBelow(existing, m, n - 1)

\* The answers to the queries a run can send, by remote and upper bound.
Answers ==
    [existing \in Remotes |-> [hi \in 0..MaxStop |-> TopBelow(existing, hi, dbooruLimit)]]

Answer(existing, hi) == Answers[existing][hi]

\* The posts one scrapeBatch(first, second) call passes to dbInsert, in order:
\* what requestPost returns for the answer of the remote.
PassedBy(existing, job) ==
    requestPost(job.first, job.second, "ok", Answer(existing, job.second))

\* The post IDs passed to dbInsert by the scrapeBatch calls that have ended.
RECURSIVE PassedIn(_, _)
PassedIn(existing, log) ==
    IF log = <<>> THEN <<>>
    ELSE IF Head(log).ev = "end"
         THEN PassedBy(existing, Head(log).job) \o PassedIn(existing, Tail(log))
         ELSE PassedIn(existing, Tail(log))

PassedIds(existing) == PassedIn(existing, batchLog)

\* How often id occurs in a sequence of IDs.
Times(ids, id) == Cardinality({k \in 1..Len(ids) : ids[k] = id})

InRange(existing) == {e \in existing : startId <= e /\ e < stopId}

(***************************************************************************)
(* C23: in a run of scrapeRange(start, stop) with start < stop and no fetch *)
(* error, against a remote that answers each query with the at most 20      *)
(* highest existing IDs below the upper bound in descending order, every ID *)
(* passed to dbInsert is an existing post with start <= ID < stop and is    *)
(* passed once, and when scrapeRange has returned the IDs passed are        *)
(* exactly the existing posts of the range.                                 *)
(***************************************************************************)
C23_ExistingOnce ==
    startId < stopId =>
        \A existing \in Remotes :
            LET ids == PassedIds(existing)
                expected == InRange(existing)
            IN /\ \A k \in 1..Len(ids) :
                     /\ ids[k] \in expected
                     /\ Times(ids, ids[k]) = 1
               /\ mainPc = "returned" => Range(ids) = expected

\* A run of three sub-ranges over two workers has returned: against the mixed
\* remote the first sub-range was full (20 posts), the second had deleted
\* posts, so that its answer reached below it and was cut, and posts exist
\* below start and at stop.
C23_Witness ==
    /\ mainPc = "returned"
    /\ startId < stopId
    /\ nrThreads >= 2
    /\ Len(pushed) = 3
    /\ Len(PassedBy(Mixed, pushed[1])) = dbooruLimit
    /\ Len(PassedBy(Mixed, pushed[2])) \in 1..(dbooruLimit - 1)
    /\ Len(Answer(Mixed, pushed[2].second)) = dbooruLimit
    /\ Len(PassedBy(Mixed, pushed[3])) >= 1
    /\ \E e \in Mixed : e < startId
    /\ stopId \in Mixed
    /\ Range(PassedIds(Mixed)) = InRange(Mixed)
    /\ InRange(Mixed) # {}

(***************************************************************************)
(* The workers of scrapeRange sharing the store. Every worker runs          *)
(* scrapeBatch on the sub-range it received and so dbInsert on each post of *)
(* the answer, one statement at a time, each transaction on a connection of *)
(* its own. The store is PostgreSQL at READ COMMITTED: a statement sees the *)
(* committed rows and the rows of its own transaction; INSERT INTO tags ... *)
(* ON CONFLICT DO NOTHING waits while another open transaction holds a row  *)
(* of the same name; a cycle of waiting transactions is broken by failing   *)
(* the statement of one of them.                                            *)
(***************************************************************************)
MaxPool == 2

\* 4: general "c b", the names of PostA the other way round
PostD ==
    Post(4, <<>>, <<>>, <<>>, <<"c", " ", "b">>, <<>>, <<>>)

\* 5: general "b"
PostE ==
    Post(5, <<>>, <<>>, <<>>, <<"b">>, <<>>, <<>>)

\* The answers of the remote to the sub-ranges of a run, in the order the
\* producer sends the sub-ranges: posts of distinct ids.
PoolJobs ==
    { <<<<PostA>>>>,
      <<<<PostA>>, <<PostD>>>>,
      <<<<PostA>>, <<PostB>>>>,
      <<<<PostC>>, <<PostA>>>>,
      <<<<PostB, PostC>>, <<PostD>>>>,
      <<<<PostD>>, <<PostC>>, <<PostE>>>> }

St(op, k, a, id) == [op |-> op, cat |-> k, arg |-> a, post |-> id]

\* The statements of dbInsertTags(tags, category, postId, db) in order.
TagStmts(p, k) ==
    LET ts == Split(TagString(p, k))
        n == Len(ts)
    IN IF TrimSpace(TagString(p, k)) = <<>> THEN <<>>
       ELSE <<St("begin", k, <<>>, p.Id)>>
            \o [i \in 1..n |-> St("tag", k, ts[i], p.Id)]
            \o <<St("commitTags", k, <<>>, p.Id), St("begin", k, <<>>, p.Id)>>
            \o [i \in 1..(2 * n) |->
                   IF i % 2 = 1 THEN St("lookup", k, ts[(i + 1) \div 2], p.Id)
                   ELSE St("edge", k, ts[i \div 2], p.Id)]
            \o <<St("commit", k, <<>>, p.Id)>>

\* The statements of a loop over strings.Split(s, " ") that runs stmt.Exec for
\* the tokens strconv.Atoi accepts.
RECURSIVE IdStmts(_, _, _, _)
IdStmts(op, ts, prefix, id) ==
    IF ts = <<>> THEN <<>>
    ELSE LET n == Atoi(TrimPrefix(Head(ts), prefix))
         IN (IF n.ok THEN <<St(op, 0, n.val, id)>> ELSE <<>>)
            \o IdStmts(op, Tail(ts), prefix, id)

\* The statements of dbInsert after INSERT INTO posts.
Stmts(p) ==
    TagStmts(p, 1) \o TagStmts(p, 2) \o TagStmts(p, 3) \o TagStmts(p, 4)
    \o (IF BothBlank(p) THEN <<>>
        ELSE <<St("begin", 0, <<>>, p.Id)>>
             \o IdStmts("fav", Split(p.FavString), FavPrefix, p.Id)
             \o <<St("commit", 0, <<>>, p.Id), St("begin", 0, <<>>, p.Id)>>
             \o IdStmts("pool", Split(p.PoolString), PoolPrefix, p.Id)
             \o <<St("commit", 0, <<>>, p.Id)>>)

\* The return of dbInsertTags after a failed commit of the tag rows: the
\* transaction of the edges is not run.
RECURSIVE AfterEdges(_)
AfterEdges(stmts) ==
    IF stmts = <<>> THEN <<>>
    ELSE IF Head(stmts).op = "commit" THEN Tail(stmts)
    ELSE AfterEdges(Tail(stmts))

\* tx, err := db.Begin(): a transaction with no row of its own yet.
OpenedTx == [failed |-> FALSE, snap |-> db, rows |-> EmptyDb]

\* A statement failed: the transaction is aborted and its rows are gone.
FailedTx(tx) == [tx EXCEPT !.failed = TRUE, !.rows = EmptyDb]

\* A mutant of Merge: the commit writes the transaction's view back, the
\* store as it was at db.Begin() and the rows of the transaction.
MergeOntoSnapshot(store, tx) ==
    [posts |-> tx.snap.posts \cup tx.rows.posts,
     tags |-> tx.snap.tags \cup tx.rows.tags,
     tagged |-> tx.snap.tagged \cup tx.rows.tagged,
     favorites |-> tx.snap.favorites \cup tx.rows.favorites,
     pooled |-> tx.snap.pooled \cup tx.rows.pooled]

\* tx.Commit(): the rows of the transaction join the committed rows.
Merge(store, tx) ==
    [posts |-> store.posts \cup tx.rows.posts,
     tags |-> store.tags \cup tx.rows.tags,
     tagged |-> store.tagged \cup tx.rows.tagged,
     favorites |-> store.favorites \cup tx.rows.favorites,
     pooled |-> store.pooled \cup tx.rows.pooled]

\* The tag rows a statement of worker w sees.
SeenTags(w) == db.tags \cup (IF wtx[w] = NoTx THEN {} ELSE wtx[w].rows.tags)

\* The worker whose open transaction holds an uncommitted tag row of this
\* name, 0 if there is none.
Holder(w, name) ==
    LET hs == {v \in Workers \ {w} :
                  wtx[v] # NoTx /\ \E r \in wtx[v].rows.tags : r.name = name}
    IN IF hs = {} THEN 0 ELSE CHOOSE v \in hs : TRUE

\* The worker that worker w waits for, 0 if its next statement can run.
WaitsFor(w) ==
    IF /\ wstmts[w] # <<>>
       /\ Head(wstmts[w]).op = "tag"
       /\ ~wtx[w].failed
       /\ ~ \E r \in SeenTags(w) : r.name = Head(wstmts[w]).arg
    THEN Holder(w, Head(wstmts[w]).arg)
    ELSE 0

RECURSIVE Follow(_, _)
Follow(w, n) ==
    IF n = 0 \/ w = 0 THEN w ELSE Follow(WaitsFor(w), n - 1)

\* Worker w is in a cycle of transactions waiting for one another.
OnCycle(w) == \E n \in 1..MaxThreads : Follow(w, n) = w

PoolErr(s, why) == [post |-> s.post, cat |-> s.cat, stmt |-> s.op, why |-> why, arg |-> s.arg]

PoolFrame ==
    UNCHANGED <<startId, stopId, nrThreads, mainPc, spawned, wgCount, currentId,
                sendVal, chanBuf, chanClosed, wpc, wparams, pushed, batchLog,
                aborted, reqVars, txState, txSnap, dbPc, post, cat, toks, idx,
                tagId, callNo, calls, errLog, faults, txLog, jobs, psIdx>>

\* Worker w is between two scrapeBatch calls.
Free(w) == wposts[w] = <<>> /\ wstmts[w] = <<>>

\* params, ok := <-paramChannel: a free worker receives the next sub-range
\* and requestPost returns its posts. The goroutines run the same closure
\* and differ in nothing but the sub-range they hold, so of the free workers
\* the one of the lowest number stands for whichever receives.
PoolTake(w) ==
    /\ w <= nrThreads
    /\ Free(w)
    /\ \A v \in 1..(w - 1) : ~Free(v)
    /\ jobNo < Len(jobs)
    /\ jobNo' = jobNo + 1
    /\ wposts' = [wposts EXCEPT ![w] = jobs[jobNo + 1]]
    /\ UNCHANGED <<db, tagSeq, wstmts, wtx, wtagId, poolErrs>>
    /\ PoolFrame

\* dbInsert(p, db) of the next post of the batch up to its first statement,
\* INSERT INTO posts, which runs outside any transaction.
PoolInsertPost(w) ==
    /\ wstmts[w] = <<>>
    /\ wposts[w] # <<>>
    /\ LET p == Head(wposts[w])
       IN IF p.Id \in db.posts
          THEN /\ poolErrs' = poolErrs \cup
                     {PoolErr(St("post", 0, <<>>, p.Id), "dupkey")}
               /\ UNCHANGED <<db, wstmts>>
          ELSE /\ db' = [db EXCEPT !.posts = @ \cup {p.Id}]
               /\ wstmts' = [wstmts EXCEPT ![w] = Stmts(p)]
               /\ UNCHANGED poolErrs
    /\ wposts' = [wposts EXCEPT ![w] = Tail(@)]
    /\ UNCHANGED <<tagSeq, wtx, wtagId, jobNo>>
    /\ PoolFrame

\* The next statement of worker w, which is not waiting.
PoolExec(w) ==
    /\ wstmts[w] # <<>>
    /\ WaitsFor(w) = 0
    /\ LET s == Head(wstmts[w])
           tx == wtx[w]
           rest == Tail(wstmts[w])
           fail(why) ==
               /\ poolErrs' = poolErrs \cup {PoolErr(s, why)}
               /\ wtx' = [wtx EXCEPT ![w] = FailedTx(tx)]
               /\ UNCHANGED db
           add(table, row) ==
               /\ wtx' = [wtx EXCEPT ![w].rows[table] = @ \cup {row}]
               /\ UNCHANGED <<db, poolErrs>>
       IN CASE s.op = "begin" ->
                 /\ wtx' = [wtx EXCEPT ![w] = OpenedTx]
                 /\ wstmts' = [wstmts EXCEPT ![w] = rest]
                 /\ UNCHANGED <<db, tagSeq, wtagId, poolErrs>>
            [] s.op \in {"commit", "commitTags"} ->
                 /\ wtx' = [wtx EXCEPT ![w] = NoTx]
                 /\ IF tx.failed
                    THEN /\ poolErrs' = poolErrs \cup {PoolErr(s, "aborted")}
                         /\ wstmts' = [wstmts EXCEPT ![w] =
                                          IF s.op = "commitTags"
                                          THEN AfterEdges(rest) ELSE rest]
                         /\ UNCHANGED db
                    ELSE /\ db' = Merge(db, tx)
                         /\ wstmts' = [wstmts EXCEPT ![w] = rest]
                         /\ UNCHANGED poolErrs
                 /\ UNCHANGED <<tagSeq, wtagId>>
            [] s.op = "tag" ->
                 /\ wstmts' = [wstmts EXCEPT ![w] = rest]
                 /\ IF tx.failed
                    THEN /\ poolErrs' = poolErrs \cup {PoolErr(s, "aborted")}
                         /\ UNCHANGED <<db, tagSeq, wtx>>
                    ELSE /\ tagSeq' = tagSeq + 1
                         /\ IF \E r \in SeenTags(w) : r.name = s.arg
                            THEN UNCHANGED <<db, wtx, poolErrs>>
                            ELSE add("tags", [id |-> tagSeq + 1, name |-> s.arg,
                                              category |-> Categories[s.cat]])
                 /\ UNCHANGED wtagId
            [] s.op = "lookup" ->
                 /\ wstmts' = [wstmts EXCEPT ![w] = rest]
                 /\ LET rows == {r \in SeenTags(w) : r.name = s.arg}
                    IN IF tx.failed
                       THEN /\ poolErrs' = poolErrs \cup {PoolErr(s, "aborted")}
                            /\ wtagId' = [wtagId EXCEPT ![w] = 0]
                       ELSE IF rows = {}
                       THEN /\ poolErrs' = poolErrs \cup {PoolErr(s, "norows")}
                            /\ wtagId' = [wtagId EXCEPT ![w] = 0]
                       ELSE /\ wtagId' = [wtagId EXCEPT ![w] =
                                             (CHOOSE r \in rows : TRUE).id]
                            /\ UNCHANGED poolErrs
                 /\ UNCHANGED <<db, tagSeq, wtx>>
            [] s.op = "edge" ->
                 /\ wstmts' = [wstmts EXCEPT ![w] = rest]
                 /\ IF tx.failed
                    THEN /\ poolErrs' = poolErrs \cup {PoolErr(s, "aborted")}
                         /\ UNCHANGED <<db, wtx>>
                    ELSE IF \/ ~ \E r \in SeenTags(w) : r.id = wtagId[w]
                            \/ s.post \notin db.posts
                    THEN fail("fk")
                    ELSE add("tagged", <<wtagId[w], s.post>>)
                 /\ UNCHANGED <<tagSeq, wtagId>>
            [] s.op \in {"fav", "pool"} ->
                 /\ wstmts' = [wstmts EXCEPT ![w] = rest]
                 /\ IF tx.failed
                    THEN /\ poolErrs' = poolErrs \cup {PoolErr(s, "aborted")}
                         /\ UNCHANGED <<db, wtx>>
                    ELSE IF s.post \notin db.posts
                    THEN fail("fk")
                    ELSE add(IF s.op = "fav" THEN "favorites" ELSE "pooled",
                             <<s.arg, s.post>>)
                 /\ UNCHANGED <<tagSeq, wtagId>>
    /\ UNCHANGED <<wposts, jobNo>>
    /\ PoolFrame

\* The store breaks a cycle of waiting transactions: the tag insert of one
\* of them fails, which aborts its transaction and lets the others go on.
PoolDeadlock(w) ==
    /\ WaitsFor(w) # 0
    /\ OnCycle(w)
    /\ poolErrs' = poolErrs \cup {PoolErr(Head(wstmts[w]), "deadlock")}
    /\ wtx' = [wtx EXCEPT ![w] = FailedTx(@)]
    /\ wstmts' = [wstmts EXCEPT ![w] = Tail(@)]
    /\ UNCHANGED <<db, tagSeq, wposts, wtagId, jobNo>>
    /\ PoolFrame

PoolInit ==
    /\ PipeOff
    /\ nrThreads \in 1..MaxPool
    /\ DbFresh
    /\ jobs \in PoolJobs
    /\ ReqIdle
    /\ PoolIdle

PoolNext ==
    \E w \in Workers :
        \/ PoolTake(w)
        \/ PoolInsertPost(w)
        \/ PoolExec(w)
        \/ PoolDeadlock(w)

PoolSpec == PoolInit /\ [][PoolNext]_vars

\* Every sub-range was taken and every dbInsert call has returned.
PoolDone ==
    /\ jobNo = Len(jobs)
    /\ \A w \in Workers : wposts[w] = <<>> /\ wstmts[w] = <<>>

\* The posts of the run.
RunPosts == UNION {Range(jobs[j]) : j \in 1..Len(jobs)}

\* The posts whose INSERT INTO posts has run.
Started ==
    {p.Id : p \in UNION {Range(jobs[j]) : j \in 1..jobNo}}
    \ {p.Id : p \in UNION {Range(wposts[w]) : w \in Workers}}

\* What the claim compares: the post rows and the edges by tag name, user
\* and pool.
StoreView ==
    [posts |-> db.posts,
     tagged |-> {<<r.name, e[2]>> : <<r, e>> \in
                    {x \in db.tags \X db.tagged : x[1].id = x[2][1]}},
     favorites |-> db.favorites,
     pooled |-> db.pooled]

\* The same, as the posts of the run determine it.
Expected ==
    [posts |-> {p.Id : p \in RunPosts},
     tagged |-> UNION {{<<name, p.Id>> : name \in TagNames(p)} : p \in RunPosts},
     favorites |-> UNION {{<<u, p.Id>> : u \in FavIds(p)} : p \in RunPosts},
     pooled |-> UNION {{<<q, p.Id>> : q \in PoolIds(p)} : p \in RunPosts}]

\* C21: for fixed answers of the remote and no failing statement, the post
\* rows and the (tag name, post), (user, post) and (pool, post) edges in the
\* store at the end of the run are the ones the posts determine, whatever
\* the number of workers and however their statements interleave; on the way
\* the store never holds a row outside them and keeps every post row written.
C21_SameStore ==
    /\ (PoolDone /\ poolErrs = {}) => StoreView = Expected
    /\ poolErrs = {} => Started \subseteq StoreView.posts
    /\ StoreView.posts \subseteq Expected.posts
    /\ StoreView.tagged \subseteq Expected.tagged
    /\ StoreView.favorites \subseteq Expected.favorites
    /\ StoreView.pooled \subseteq Expected.pooled

\* Two workers ran PostA and PostD statement by statement in turns: tag "c"
\* of PostD got its id between "a" and "b" of PostA, which no run of one
\* worker produces, and no statement failed.
C21_Witness ==
    /\ PoolDone
    /\ poolErrs = {}
    /\ nrThreads = 2
    /\ jobs = <<<<PostA>>, <<PostD>>>>
    /\ \E ra, rb, rc \in db.tags :
          /\ ra.name = <<"a">> /\ rb.name = <<"b">> /\ rc.name = <<"c">>
          /\ ra.id < rc.id /\ rc.id < rb.id
    /\ StoreView = Expected

\* C21, outside its premise: PostA and PostD insert the names "b" and "c" in
\* opposite orders, each in one transaction; when each worker waits for the
\* row of the other the store fails one of the two statements, and the run
\* ends without the edges of that tag string.
C21_AfterDeadlock ==
    /\ PoolDone
    /\ \E e \in poolErrs : e.why = "deadlock"
    /\ StoreView.tagged # Expected.tagged
    /\ StoreView.posts = Expected.posts

====
